---- MODULE Spec2Model ----
(***************************************************************************)
(* A model of shuttle, a live-reconfigurable TCP/UDP proxy.                *)
(*                                                                         *)
(* Go pointers are modelled by two heaps: insts holds the Backend objects  *)
(* and lsns the listening sockets with their accept loops; a Service       *)
(* refers to them by id.  The service registry (UpdateConfig and the       *)
(* backend diff), the Backend type (NewBackend, Start, Stop, its health    *)
(* check, Proxy) and the balancing policies are not among the source       *)
(* files; they are written from spec.md and marked so where defined.       *)
(* ServiceConfig.VirtualHosts and ErrorPages (HTTP virtual hosts) are left *)
(* out of the configuration records.                                       *)
(***************************************************************************)
EXTENDS Integers, Sequences, FiniteSets, TLC

\* ------------------------------------------------------------------ bounds
\* Backend objects on the heap at once.
MaxInst == 5
\* Listening sockets (open, or closed with their accept loop still running).
MaxLsn == 3
\* Dials, good and failed, counted on the backends on the heap.
MaxConns == 1
\* Largest rise or fall threshold a health check is run with.
MaxThreshold == 3
\* Dials of one run of traffic through a service that is not reconfigured.
MaxPicks == 6
\* Proxied connections open at once in such a run.
MaxOpen == 2

\* Bytes a UDP service receives in one run.
MaxBytes == 2
\* Calls of Backend.Stop on one backend.
MaxStops == 3

\* Calls made on the HTTP router in one run.
MaxCalls == 3

\* time.Millisecond, in nanoseconds
Millisecond == 1000000

VARIABLES
  svcs,    \* Registry.svcs: service name -> Service
  insts,   \* heap of Backend objects: id -> Backend
  lsns,    \* heap of listeners: id -> socket and its accept loop
  conns,   \* open proxied connections: id -> [b: Backend id]
  env,     \* the network outside: what dials and probes meet
  req      \* the control-plane request being served, and its outcome

vars == <<svcs, insts, lsns, conns, env, req>>

\* ----------------------------------------------------------------- helpers
Min(a, b) == IF a < b THEN a ELSE b

Range(f) == {f[x] : x \in DOMAIN f}

\* The smallest id the heap h does not use.
FreeId(h) ==
  CHOOSE i \in 1..(Cardinality(DOMAIN h) + 1) :
    i \notin DOMAIN h /\ \A j \in 1..(i - 1) : j \in DOMAIN h

Without(f, dead) == [x \in (DOMAIN f) \ dead |-> f[x]]

TCPNets == {"tcp", "tcp4", "tcp6"}
UDPNets == {"udp", "udp4", "udp6"}

\* ----------------------------------------------------------------- Backend
\* A world W == [insts, lsns, trace] is threaded through the operations;
\* trace is the sequence of effects the operation had on sockets and tasks.

NewBackend(cfg) ==
  [Name |-> cfg.Name, Addr |-> cfg.Addr, CheckAddr |-> cfg.CheckAddr,
   Weight |-> IF cfg.Weight = 0 THEN 1 ELSE cfg.Weight,
   Network |-> IF cfg.Network = "" THEN "tcp" ELSE cfg.Network,
   up |-> FALSE, started |-> FALSE, stopped |-> FALSE,
   rwTimeout |-> 0, dialTimeout |-> 0, checkInterval |-> 0,
   rise |-> 0, fall |-> 0, riseCount |-> 0, fallCount |-> 0,
   Errors |-> 0, Conns |-> 0, Active |-> 0]

BackendConfigOf(b) ==
  [Name |-> b.Name, Addr |-> b.Addr, CheckAddr |-> b.CheckAddr,
   Weight |-> b.Weight, Network |-> b.Network]

BackendStart(W, id) ==
  [W EXCEPT !.insts[id].started = TRUE, !.insts[id].up = TRUE,
            !.trace = Append(@, <<"bstart", id>>)]

BackendStop(W, id) ==
  [W EXCEPT !.insts[id].stopped = TRUE,
            !.trace = Append(@, <<"bstop", id>>)]

\* Backend.Start launches the health-check task of a backend that has a
\* check address and an interval; task is where that task stands.
HealthTask(b) ==
  IF b.CheckAddr # "" /\ b.checkInterval > 0 THEN "running" ELSE "none"

\* A variant of StopWaits that waits for a task to have exited, whether or
\* not one was launched.
StopWaitsForExit(b) == b.task # "exited"

\* Backend.Stop waits for the task it has signalled: the call returns once
\* no task of the backend is running.
StopWaits(b) == b.task = "running"

\* The health-check task of b exists and has not been told to exit.
Checking(b) ==
  b.started /\ ~b.stopped /\ b.CheckAddr # "" /\ b.checkInterval > 0

\* Backend.check, one probe (spec.md 4.2); ok: the connect to CheckAddr
\* succeeded.  A variant that forgets to clear the failure count on success:
checkKeepingFailures(b, ok) ==
  IF ok
  THEN LET s == Min(b.riseCount + 1, b.rise)
       IN [b EXCEPT !.riseCount = s, !.up = IF ~@ /\ s = b.rise THEN TRUE ELSE @]
  ELSE LET f == Min(b.fallCount + 1, b.fall)
       IN [b EXCEPT !.riseCount = 0, !.fallCount = f,
                    !.up = IF @ /\ f = b.fall THEN FALSE ELSE @]

check(b, ok) ==
  IF ok
  THEN LET s == Min(b.riseCount + 1, b.rise)
       IN [b EXCEPT !.fallCount = 0, !.riseCount = s,
                    !.up = IF ~@ /\ s = b.rise THEN TRUE ELSE @]
  ELSE LET f == Min(b.fallCount + 1, b.fall)
       IN [b EXCEPT !.riseCount = 0, !.fallCount = f,
                    !.up = IF @ /\ f = b.fall THEN FALSE ELSE @]

BackendConfigEqual(b, other) ==
  LET nb == [b EXCEPT !.Weight = IF @ = 0 THEN 1 ELSE @,
                      !.Network = IF @ = "" THEN "tcp" ELSE @]
      no == [other EXCEPT !.Weight = IF @ = 0 THEN 1 ELSE @,
                          !.Network = IF @ = "" THEN "tcp" ELSE @]
  IN nb = no

\* ----------------------------------------------------------------- Service
\* Index of the first backend of s named name, 0 if none.
FindBackend(s, W, name) ==
  LET I == {i \in 1..Len(s.Backends) : W.insts[s.Backends[i]].Name = name}
  IN IF I = {} THEN 0 ELSE CHOOSE i \in I : \A j \in I : i <= j

\* A variant of add that replaces a backend by overwriting the object the
\* service already holds, instead of swapping in the new one.
addOverwriting(s, W, id) ==
  LET W1 == [W EXCEPT !.insts[id].up = TRUE,
                      !.insts[id].rwTimeout = s.ServerTimeout,
                      !.insts[id].dialTimeout = s.DialTimeout,
                      !.insts[id].checkInterval = s.CheckInterval * Millisecond]
      i == FindBackend(s, W1, W1.insts[id].Name)
  IN IF i # 0
     THEN [s |-> s,
           W |-> [W1 EXCEPT !.insts[s.Backends[i]] = [W1.insts[id] EXCEPT !.started = TRUE],
                            !.trace = @ \o <<<<"bstop", s.Backends[i]>>,
                                             <<"bstart", s.Backends[i]>>>>]]
     ELSE [s |-> [s EXCEPT !.Backends = Append(@, id)],
           W |-> BackendStart(W1, id)]

\* A variant of add that never looks for a backend of the same name.
addAppending(s, W, id) ==
  LET W1 == [W EXCEPT !.insts[id].up = TRUE,
                      !.insts[id].rwTimeout = s.ServerTimeout,
                      !.insts[id].dialTimeout = s.DialTimeout,
                      !.insts[id].checkInterval = s.CheckInterval * Millisecond]
  IN [s |-> [s EXCEPT !.Backends = Append(@, id)],
      W |-> BackendStart(W1, id)]

add(s, W, id) ==
  LET W1 == [W EXCEPT !.insts[id].up = TRUE,
                      !.insts[id].rwTimeout = s.ServerTimeout,
                      !.insts[id].dialTimeout = s.DialTimeout,
                      !.insts[id].checkInterval = s.CheckInterval * Millisecond]
      i == FindBackend(s, W1, W1.insts[id].Name)
  IN IF i # 0
     THEN [s |-> [s EXCEPT !.Backends[i] = id],
           W |-> BackendStart(BackendStop(W1, s.Backends[i]), id)]
     ELSE [s |-> [s EXCEPT !.Backends = Append(@, id)],
           W |-> BackendStart(W1, id)]

\* A variant of remove that truncates the list without first moving the last
\* backend into the freed slot.
removeLast(s, W, name) ==
  LET i == FindBackend(s, W, name)
      last == Len(s.Backends)
  IN IF i = 0
     THEN [s |-> s, W |-> W, ok |-> FALSE]
     ELSE [s |-> [s EXCEPT !.Backends = SubSeq(@, 1, last - 1)],
           W |-> BackendStop(W, s.Backends[i]), ok |-> TRUE]

\* A variant of remove that stops the backend it moved, not the one it took
\* out.
removeStoppingMoved(s, W, name) ==
  LET i == FindBackend(s, W, name)
      last == Len(s.Backends)
      moved == [s.Backends EXCEPT ![i] = s.Backends[last]]
  IN IF i = 0
     THEN [s |-> s, W |-> W, ok |-> FALSE]
     ELSE [s |-> [s EXCEPT !.Backends = SubSeq(moved, 1, last - 1)],
           W |-> BackendStop(W, s.Backends[last]), ok |-> TRUE]

remove(s, W, name) ==
  LET i == FindBackend(s, W, name)
      last == Len(s.Backends)
      moved == [s.Backends EXCEPT ![i] = s.Backends[last]]
  IN IF i = 0
     THEN [s |-> s, W |-> W, ok |-> FALSE]
     ELSE [s |-> [s EXCEPT !.Backends = SubSeq(moved, 1, last - 1)],
           W |-> BackendStop(W, s.Backends[i]), ok |-> TRUE]

\* NewService's loop over cfg.Backends: s.add(NewBackend(b)).
RECURSIVE AddAll(_, _, _)
AddAll(s, W, bcfgs) ==
  IF bcfgs = <<>> THEN [s |-> s, W |-> W]
  ELSE LET id == FreeId(W.insts)
           W1 == [W EXCEPT !.insts = (id :> NewBackend(Head(bcfgs))) @@ @]
           r == add(s, W1, id)
       IN AddAll(r.s, r.W, Tail(bcfgs))

NewService(cfg, W) ==
  LET s == [Name |-> cfg.Name, Addr |-> cfg.Addr, Balance |-> cfg.Balance,
            CheckInterval |-> IF cfg.CheckInterval = 0 THEN 2000 ELSE cfg.CheckInterval,
            Fall |-> IF cfg.Fall = 0 THEN 2 ELSE cfg.Fall,
            Rise |-> IF cfg.Rise = 0 THEN 2 ELSE cfg.Rise,
            ClientTimeout |-> cfg.ClientTimeout * Millisecond,
            ServerTimeout |-> cfg.ServerTimeout * Millisecond,
            DialTimeout |-> cfg.DialTimeout * Millisecond,
            Network |-> IF cfg.Network = "" THEN "tcp" ELSE cfg.Network,
            Backends |-> <<>>,
            next |-> IF cfg.Balance \in {"RR", ""} THEN "roundRobin"
                     ELSE IF cfg.Balance = "LC" THEN "leastConn" ELSE "nil",
            lastBackend |-> 0, lastCount |-> 0,
            tcpListener |-> 0, udpListener |-> 0,
            Sent |-> 0, Rcvd |-> 0, Errors |-> 0]
  IN AddAll(s, W, cfg.Backends)

UpdateDefaults(s, cfg) ==
  [s EXCEPT
     !.CheckInterval = IF cfg.CheckInterval # 0 THEN cfg.CheckInterval ELSE @,
     !.Fall = IF cfg.Fall # 0 THEN cfg.Fall ELSE @,
     !.Rise = IF cfg.Rise # 0 THEN cfg.Rise ELSE @,
     !.ClientTimeout = IF cfg.ClientTimeout # 0 THEN cfg.ClientTimeout * Millisecond ELSE @,
     !.ServerTimeout = IF cfg.ServerTimeout # 0 THEN cfg.ServerTimeout * Millisecond ELSE @,
     !.DialTimeout = IF cfg.DialTimeout # 0 THEN cfg.DialTimeout * Millisecond ELSE @]

Config(s, W) ==
  [Name |-> s.Name, Addr |-> s.Addr, Balance |-> s.Balance,
   CheckInterval |-> s.CheckInterval, Fall |-> s.Fall, Rise |-> s.Rise,
   ClientTimeout |-> s.ClientTimeout \div Millisecond,
   ServerTimeout |-> s.ServerTimeout \div Millisecond,
   DialTimeout |-> s.DialTimeout \div Millisecond,
   Network |-> s.Network,
   Backends |-> [i \in 1..Len(s.Backends) |-> BackendConfigOf(W.insts[s.Backends[i]])]]

\* Service.Stats: the counters of a service are summed over the backends it
\* holds when it is asked.
RECURSIVE Stats(_, _)
Stats(s, W) ==
  IF s.Backends = <<>> THEN [Errors |-> 0, Conns |-> 0, Active |-> 0]
  ELSE LET b == W.insts[Head(s.Backends)]
           r == Stats([s EXCEPT !.Backends = Tail(@)], W)
       IN [Errors |-> b.Errors + r.Errors, Conns |-> b.Conns + r.Conns,
           Active |-> b.Active + r.Active]

\* A variant of ServiceConfig.Equal that fills in the receiver's default
\* balance and forgets the argument's.
ServiceConfigEqualOneSided(s, other) ==
  LET ns == [s EXCEPT !.Backends = <<>>,
                      !.Balance = IF @ = "" THEN "RR" ELSE @,
                      !.CheckInterval = IF @ = 0 THEN 2000 ELSE @,
                      !.Rise = IF @ = 0 THEN 2 ELSE @,
                      !.Fall = IF @ = 0 THEN 2 ELSE @,
                      !.Network = IF @ = "" THEN "tcp" ELSE @]
      no == [other EXCEPT !.Backends = <<>>,
                          !.CheckInterval = IF @ = 0 THEN 2000 ELSE @,
                          !.Rise = IF @ = 0 THEN 2 ELSE @,
                          !.Fall = IF @ = 0 THEN 2 ELSE @]
  IN ns = no

\* ServiceConfig.Equal: s is the receiver.  The receiver's empty network is
\* normalised, the argument's is not.
ServiceConfigEqual(s, other) ==
  LET ob == IF s.Balance # other.Balance
            THEN IF s.Balance = "" /\ other.Balance = "RR" THEN ""
                 ELSE IF s.Balance = "RR" /\ other.Balance = "" THEN "RR"
                 ELSE other.Balance
            ELSE other.Balance
      ns == [s EXCEPT !.Backends = <<>>,
                      !.CheckInterval = IF @ = 0 THEN 2000 ELSE @,
                      !.Rise = IF @ = 0 THEN 2 ELSE @,
                      !.Fall = IF @ = 0 THEN 2 ELSE @,
                      !.Network = IF @ = "" THEN "tcp" ELSE @]
      no == [other EXCEPT !.Backends = <<>>,
                          !.Balance = ob,
                          !.CheckInterval = IF @ = 0 THEN 2000 ELSE @,
                          !.Rise = IF @ = 0 THEN 2 ELSE @,
                          !.Fall = IF @ = 0 THEN 2 ELSE @]
  IN ns = no

\* ServiceConfig.DeepEqual: the lengths of the backend lists, Equal, and for
\* every backend of s the first backend of other with its name, if there is
\* one.
ServiceConfigDeepEqual(s, other) ==
  IF Len(s.Backends) # Len(other.Backends) THEN FALSE
  ELSE IF ~ServiceConfigEqual(s, other) THEN FALSE
  ELSE \A i \in 1..Len(s.Backends) :
         LET J == {j \in 1..Len(other.Backends) :
                     other.Backends[j].Name = s.Backends[i].Name}
         IN J # {} =>
              BackendConfigEqual(s.Backends[i],
                                 other.Backends[CHOOSE j \in J : \A k \in J : j <= k])

\* The address a listener is bound to.  Port 0 asks the kernel for a free
\* port, which is a different one for every socket.
PortZero == ":0"

BoundAddr(addr, lid) ==
  IF addr = PortZero THEN [a |-> addr, eph |-> lid] ELSE [a |-> addr, eph |-> 0]

\* bind(2) fails when an open socket of the same family holds the address.
InUse(W, fam, addr) ==
  addr # PortZero /\
  \E l \in DOMAIN W.lsns :
    W.lsns[l].open /\ W.lsns[l].fam = fam /\ W.lsns[l].addr = BoundAddr(addr, 0)

\* A variant of Listen that binds the socket and starts no accept loop on it.
ListenWithoutLoop(W, fam, addr) ==
  LET lid == FreeId(W.lsns)
  IN [W EXCEPT !.lsns = (lid :> [fam |-> fam, addr |-> BoundAddr(addr, lid),
                                 open |-> TRUE, loop |-> "none"]) @@ @,
               !.trace = Append(@, <<"listen", lid>>)]

Listen(W, fam, addr) ==
  LET lid == FreeId(W.lsns)
  IN [W EXCEPT !.lsns = (lid :> [fam |-> fam, addr |-> BoundAddr(addr, lid),
                                 open |-> TRUE, loop |-> "running"]) @@ @,
               !.trace = Append(@, <<"listen", lid>>)]

\* A variant of start that drops the error of a failed bind.
startIgnoringBindError(s, W) ==
  IF s.Network \in TCPNets
  THEN IF InUse(W, "tcp", s.Addr)
       THEN [s |-> s, W |-> W, err |-> FALSE]
       ELSE [s |-> [s EXCEPT !.tcpListener = FreeId(W.lsns)],
             W |-> Listen(W, "tcp", s.Addr), err |-> FALSE]
  ELSE IF s.Network \in UDPNets
  THEN IF InUse(W, "udp", s.Addr)
       THEN [s |-> s, W |-> W, err |-> FALSE]
       ELSE [s |-> [s EXCEPT !.udpListener = FreeId(W.lsns)],
             W |-> Listen(W, "udp", s.Addr), err |-> FALSE]
  ELSE [s |-> s, W |-> W, err |-> TRUE]

\* A variant of start whose default case returns nil.
startAnyNetwork(s, W) ==
  IF s.Network \in TCPNets
  THEN IF InUse(W, "tcp", s.Addr)
       THEN [s |-> s, W |-> W, err |-> TRUE]
       ELSE [s |-> [s EXCEPT !.tcpListener = FreeId(W.lsns)],
             W |-> Listen(W, "tcp", s.Addr), err |-> FALSE]
  ELSE IF s.Network \in UDPNets
  THEN IF InUse(W, "udp", s.Addr)
       THEN [s |-> s, W |-> W, err |-> TRUE]
       ELSE [s |-> [s EXCEPT !.udpListener = FreeId(W.lsns)],
             W |-> Listen(W, "udp", s.Addr), err |-> FALSE]
  ELSE [s |-> s, W |-> W, err |-> FALSE]

start(s, W) ==
  IF s.Network \in TCPNets
  THEN IF InUse(W, "tcp", s.Addr)
       THEN [s |-> s, W |-> W, err |-> TRUE]
       ELSE [s |-> [s EXCEPT !.tcpListener = FreeId(W.lsns)],
             W |-> Listen(W, "tcp", s.Addr), err |-> FALSE]
  ELSE IF s.Network \in UDPNets
  THEN IF InUse(W, "udp", s.Addr)
       THEN [s |-> s, W |-> W, err |-> TRUE]
       ELSE [s |-> [s EXCEPT !.udpListener = FreeId(W.lsns)],
             W |-> Listen(W, "udp", s.Addr), err |-> FALSE]
  ELSE [s |-> s, W |-> W, err |-> TRUE]

Close(W, lid) ==
  \* Close releases the address; the socket stays on the heap until the accept
  \* loop blocked on it has returned.
  LET NoAddr == [a |-> "", eph |-> 0]
  IN [W EXCEPT !.lsns[lid].open = FALSE, !.lsns[lid].fam = "",
               !.lsns[lid].addr = NoAddr,
               !.trace = Append(@, <<"close", lid>>)]

\* A variant of the loop of stop that leaves it after the first backend.
StopHead(W, ids) ==
  IF ids = <<>> THEN W ELSE BackendStop(W, Head(ids))

RECURSIVE StopAll(_, _)
StopAll(W, ids) ==
  IF ids = <<>> THEN W ELSE StopAll(BackendStop(W, Head(ids)), Tail(ids))

\* A variant of stop that stops the backends and leaves the listener open.
stopKeepingListener(s, W) == StopAll(W, s.Backends)

\* A variant of stop that closes the listener and leaves the backends running.
stopKeepingBackends(s, W) ==
  IF s.Network \in TCPNets
  THEN IF s.tcpListener = 0 THEN W ELSE Close(W, s.tcpListener)
  ELSE IF s.Network \in UDPNets
  THEN IF s.udpListener = 0 THEN W ELSE Close(W, s.udpListener)
  ELSE W

stop(s, W) ==
  LET W1 == StopAll(W, s.Backends)
  IN IF s.Network \in TCPNets
     THEN IF s.tcpListener = 0 THEN W1 ELSE Close(W1, s.tcpListener)
     ELSE IF s.Network \in UDPNets
     THEN IF s.udpListener = 0 THEN W1 ELSE Close(W1, s.udpListener)
     ELSE W1

\* The listener of s, whichever kind; 0 if it has none.
ListenerOf(s) == IF s.tcpListener # 0 THEN s.tcpListener ELSE s.udpListener


\* ---------------------------------------------------------------- policies
\* Written from spec.md 4.3; the source files hold only their use
\* (Service.next, set in NewService).

\* A variant of the policies' filter that takes every backend for up.
IsUpAlways(s, W, i) == i \in 1..Len(s.Backends)

IsUp(s, W, i) == W.insts[s.Backends[i]].up

\* The first index at or after from (wrapping around) whose backend is up;
\* asked only when some backend is up.
NextUp(s, W, from) ==
  LET n == Len(s.Backends)
      at(k) == ((from - 1 + k) % n) + 1
      k0 == CHOOSE k \in 0..(n - 1) :
              IsUp(s, W, at(k)) /\ \A j \in 0..(k - 1) : ~IsUp(s, W, at(j))
  IN at(k0)

\* A variant of roundRobin that moves on after every connection, whatever the
\* weight of the backend.
roundRobinUnweighted(s, W) ==
  LET n == Len(s.Backends)
  IN IF n = 0 \/ \A i \in 1..n : ~IsUp(s, W, i)
     THEN [s |-> s, list |-> <<>>]
     ELSE
       LET last == s.lastBackend + 1
           cur == IF last > n THEN NextUp(s, W, 1) ELSE NextUp(s, W, last)
           order == [k \in 1..n |-> ((cur - 1 + k - 1) % n) + 1]
       IN [s |-> [s EXCEPT !.lastBackend = NextUp(s, W, (cur % n) + 1) - 1,
                           !.lastCount = 0],
           list |-> [k \in 1..Cardinality({i \in 1..n : IsUp(s, W, i)}) |->
                       s.Backends[
                         order[CHOOSE m \in 1..n :
                                 /\ IsUp(s, W, order[m])
                                 /\ Cardinality({j \in 1..m : IsUp(s, W, order[j])}) = k]]]]

\* A variant of roundRobin that carries the count of the backend it has to
\* leave (removed or down) over to the one it moves to.
roundRobinKeepingCount(s, W) ==
  LET n == Len(s.Backends)
  IN IF n = 0 \/ \A i \in 1..n : ~IsUp(s, W, i)
     THEN [s |-> s, list |-> <<>>]
     ELSE
       LET last == s.lastBackend + 1
           stale == last > n \/ ~IsUp(s, W, IF last > n THEN 1 ELSE last)
           cur == IF last > n THEN NextUp(s, W, 1)
                  ELSE IF stale THEN NextUp(s, W, last) ELSE last
           cnt == s.lastCount + 1
           adv == cnt >= W.insts[s.Backends[cur]].Weight
           order == [k \in 1..n |-> ((cur - 1 + k - 1) % n) + 1]
       IN [s |-> [s EXCEPT !.lastBackend =
                             IF adv THEN NextUp(s, W, (cur % n) + 1) - 1 ELSE cur - 1,
                           !.lastCount = IF adv THEN 0 ELSE cnt],
           list |-> [k \in 1..Cardinality({i \in 1..n : IsUp(s, W, i)}) |->
                       s.Backends[
                         order[CHOOSE m \in 1..n :
                                 /\ IsUp(s, W, order[m])
                                 /\ Cardinality({j \in 1..m : IsUp(s, W, order[j])}) = k]]]]

roundRobin(s, W) ==
  LET n == Len(s.Backends)
  IN IF n = 0 \/ \A i \in 1..n : ~IsUp(s, W, i)
     THEN [s |-> s, list |-> <<>>]
     ELSE
       LET last == s.lastBackend + 1
           stale == last > n \/ ~IsUp(s, W, IF last > n THEN 1 ELSE last)
           cur == IF last > n THEN NextUp(s, W, 1)
                  ELSE IF stale THEN NextUp(s, W, last) ELSE last
           cnt == (IF stale THEN 0 ELSE s.lastCount) + 1
           adv == cnt >= W.insts[s.Backends[cur]].Weight
           order == [k \in 1..n |-> ((cur - 1 + k - 1) % n) + 1]
       IN [s |-> [s EXCEPT !.lastBackend =
                             IF adv THEN NextUp(s, W, (cur % n) + 1) - 1 ELSE cur - 1,
                           !.lastCount = IF adv THEN 0 ELSE cnt],
           list |-> [k \in 1..Cardinality({i \in 1..n : IsUp(s, W, i)}) |->
                       s.Backends[
                         order[CHOOSE m \in 1..n :
                                 /\ IsUp(s, W, order[m])
                                 /\ Cardinality({j \in 1..m : IsUp(s, W, order[j])}) = k]]]]

\* A variant of the least-connections order that breaks a tie on active by
\* list order alone.
LCLessByActive(s, W, i, j) ==
  LET a == W.insts[s.Backends[i]]
      b == W.insts[s.Backends[j]]
  IN \/ a.Active < b.Active
     \/ a.Active = b.Active /\ i < j

LCLess(s, W, i, j) ==
  LET a == W.insts[s.Backends[i]]
      b == W.insts[s.Backends[j]]
  IN \/ a.Active < b.Active
     \/ a.Active = b.Active /\ a.Conns < b.Conns
     \/ a.Active = b.Active /\ a.Conns = b.Conns /\ i < j

RECURSIVE LCOrder(_, _, _)
LCOrder(s, W, I) ==
  IF I = {} THEN <<>>
  ELSE LET m == CHOOSE i \in I : \A j \in I \ {i} : LCLess(s, W, i, j)
       IN <<s.Backends[m]>> \o LCOrder(s, W, I \ {m})

leastConn(s, W) ==
  [s |-> s, list |-> LCOrder(s, W, {i \in 1..Len(s.Backends) : IsUp(s, W, i)})]

\* s.next()
next(s, W) ==
  IF s.next = "roundRobin" THEN roundRobin(s, W)
  ELSE IF s.next = "leastConn" THEN leastConn(s, W)
  ELSE [s |-> s, list |-> <<>>]

\* Backend.Proxy: the connection is counted on the backend it was dialled
\* through (spec.md 4.4 step 3).
Proxy(W, id) ==
  [W EXCEPT !.insts[id].Conns = @ + 1, !.insts[id].Active = @ + 1]

\* A proxied connection is copied by two tasks, one for each direction
\* (spec.md 4.1).  A variant in which every task that returns takes the
\* connection off the backend's active count:
ProxyExitPerHalf(is, cs, c) ==
  IF cs[c].halves > 1
  THEN [insts |-> [is EXCEPT ![cs[c].b].Active = @ - 1],
        conns |-> [cs EXCEPT ![c].halves = @ - 1]]
  ELSE [insts |-> [is EXCEPT ![cs[c].b].Active = @ - 1],
        conns |-> Without(cs, {c})]

\* One of the tasks of connection c returns; the connection is over, and is
\* taken off the active count, when the second one has.
ProxyExit(is, cs, c) ==
  IF cs[c].halves > 1
  THEN [insts |-> is, conns |-> [cs EXCEPT ![c].halves = @ - 1]]
  ELSE [insts |-> [is EXCEPT ![cs[c].b].Active = @ - 1],
        conns |-> Without(cs, {c})]

\* A variant of connectTCP that marks a backend down when its dial fails.
connectTCPMarkingDown(s, W, refused) ==
  LET p == next(s, W)
      n == Len(p.list)
      F == {i \in 1..n : W.insts[p.list[i]].Addr \notin refused}
      k == IF F = {} THEN n + 1 ELSE CHOOSE i \in F : \A j \in F : i <= j
      failed == {p.list[i] : i \in 1..(k - 1)}
      W1 == [W EXCEPT !.insts = [id \in DOMAIN @ |->
                                   IF id \in failed
                                   THEN [@[id] EXCEPT !.Errors = @ + 1, !.up = FALSE]
                                   ELSE @[id]]]
  IN IF k <= n
     THEN [s |-> p.s, W |-> Proxy(W1, p.list[k]), b |-> p.list[k]]
     ELSE [s |-> p.s, W |-> W1, b |-> 0]

\* A variant of connectTCP that goes on dialling the candidates after the one
\* it proxies through.
connectTCPDiallingAll(s, W, refused) ==
  LET p == next(s, W)
      n == Len(p.list)
      F == {i \in 1..n : W.insts[p.list[i]].Addr \notin refused}
      k == IF F = {} THEN n + 1 ELSE CHOOSE i \in F : \A j \in F : i <= j
      failed == {p.list[i] : i \in (1..n) \ F}
      W1 == [W EXCEPT !.insts = [id \in DOMAIN @ |->
                                   IF id \in failed
                                   THEN [@[id] EXCEPT !.Errors = @ + 1]
                                   ELSE @[id]]]
  IN IF k <= n
     THEN [s |-> p.s, W |-> Proxy(W1, p.list[k]), b |-> p.list[k]]
     ELSE [s |-> p.s, W |-> W1, b |-> 0]

\* connectTCP; refused is the set of addresses that refuse a dial.
connectTCP(s, W, refused) ==
  LET p == next(s, W)
      n == Len(p.list)
      F == {i \in 1..n : W.insts[p.list[i]].Addr \notin refused}
      k == IF F = {} THEN n + 1 ELSE CHOOSE i \in F : \A j \in F : i <= j
      failed == {p.list[i] : i \in 1..(k - 1)}
      W1 == [W EXCEPT !.insts = [id \in DOMAIN @ |->
                                   IF id \in failed
                                   THEN [@[id] EXCEPT !.Errors = @ + 1]
                                   ELSE @[id]]]
  IN IF k <= n
     THEN [s |-> p.s, W |-> Proxy(W1, p.list[k]), b |-> p.list[k]]
     ELSE [s |-> p.s, W |-> W1, b |-> 0]

\* ------------------------------------------------------------------- loops
\* The accept loop of a listener is at one of the places "running" (blocked
\* in Accept or ReadFromUDP), "warn" (logging a temporary error, about to
\* continue) and "exited" (returned).

\* A variant of runTCP that returns on every accept error.
runTCPEndingOnAnyError(err) == "exited"

\* runTCP when Accept returns the error err.
runTCP(err) == IF err = "temporary" THEN "warn" ELSE "exited"

\* The pick of the UDP path (spec.md 4.5 step 1): the round-robin pick, 0 if
\* no backend is up.
udpRoundRobin(s, W) ==
  LET p == roundRobin(s, W)
  IN [s |-> p.s, b |-> IF p.list = <<>> THEN 0 ELSE Head(p.list)]

\* A variant of runUDP that returns after a send error that is not temporary.
runUDPEndingOnSendError(s, W, rd, wr) ==
  IF rd.err = "permanent"
  THEN [s |-> [s EXCEPT !.Errors = @ + 1], loop |-> "exited"]
  ELSE IF rd.err = "temporary" \/ rd.n = 0
  THEN [s |-> s, loop |-> "running"]
  ELSE LET p == udpRoundRobin([s EXCEPT !.Rcvd = @ + rd.n], W)
       IN IF p.b = 0 \/ wr = "temporary"
          THEN [s |-> p.s, loop |-> "running"]
          ELSE IF wr = "permanent"
          THEN [s |-> [p.s EXCEPT !.Errors = @ + 1], loop |-> "exited"]
          ELSE [s |-> [p.s EXCEPT !.Sent = @ + rd.n], loop |-> "running"]

\* One turn of the loop of runUDP on an open socket: rd is what ReadFromUDP
\* returns (n bytes, or an error and no bytes), wr the error of WriteTo.
runUDP(s, W, rd, wr) ==
  IF rd.err = "permanent"
  THEN [s |-> [s EXCEPT !.Errors = @ + 1], loop |-> "exited"]
  ELSE IF rd.err = "temporary" \/ rd.n = 0
  THEN [s |-> s, loop |-> "running"]
  ELSE LET p == udpRoundRobin([s EXCEPT !.Rcvd = @ + rd.n], W)
       IN IF p.b = 0 \/ wr = "temporary"
          THEN [s |-> p.s, loop |-> "running"]
          ELSE IF wr = "permanent"
          THEN [s |-> [p.s EXCEPT !.Errors = @ + 1], loop |-> "running"]
          ELSE [s |-> [p.s EXCEPT !.Sent = @ + rd.n], loop |-> "running"]

\* ------------------------------------------------------------ service lock
\* The goroutines that use one service at once: two connections being
\* accepted, and a third caller.
TaskIds == {"t1", "t2", "t3"}

\* A variant of the mutex that excludes nobody.
LockFreeAlways(e) == TRUE

\* sync.Mutex: s.Lock() returns when no goroutine holds the lock.
LockFree(e) == e.lock = ""

\* ------------------------------------------------------------- HTTP router
\* s.balancers[vhost]: the balancer of vhost, 0 for nil.
Balancer(r, vhost) ==
  IF vhost \in DOMAIN r.balancers THEN r.balancers[vhost] ELSE 0

\* HTTPRouter.AddBackend between Lock and Unlock.
AddBackend(r, vhost, url) ==
  IF vhost = "" \/ url = ""
  THEN r
  ELSE LET r1 == IF Balancer(r, vhost) # 0
                 THEN r
                 ELSE [r EXCEPT !.objs = Append(@, <<>>),
                                !.routes = @ \cup {vhost},
                                !.balancers = (vhost :> Len(r.objs) + 1) @@ @]
           b == Balancer(r1, vhost)
       IN IF url \in Range(r1.objs[b])
          THEN r1
          ELSE [r1 EXCEPT !.objs[b] = Append(@, url)]

\* HTTPRouter.RemoveBackend between Lock and its last statement: call says
\* that the balancer was left without endpoints and RemoveRouter is called.
RemoveBackend(r, vhost, url) ==
  LET b == Balancer(r, vhost)
  IN IF vhost = "" \/ url = "" \/ b = 0
     THEN [r |-> r, call |-> FALSE]
     ELSE IF url \notin Range(r.objs[b])
     THEN [r |-> r, call |-> FALSE]
     ELSE LET left == SelectSeq(r.objs[b], LAMBDA u : u # url)
          IN [r |-> [r EXCEPT !.objs[b] = left], call |-> left = <<>>]

\* HTTPRouter.RemoveRouter between Lock and Unlock.
RemoveRouter(r, vhost) ==
  IF vhost = ""
  THEN r
  ELSE [r EXCEPT !.balancers = [h \in DOMAIN r.balancers \ {vhost} |-> r.balancers[h]],
                 !.routes = @ \ {vhost}]

\* A call of a router method on a goroutine's stack: where it is (pc),
\* whether it holds the mutex, and the locals of RemoveBackends.
Frame(fn, vhost, url, addrs, pc) ==
  [fn |-> fn, vhost |-> vhost, url |-> url, addrs |-> addrs, pc |-> pc,
   held |-> FALSE, bal |-> 0, todo |-> <<>>]

Top(st) == st[Len(st)]

Pop(st) == SubSeq(st, 1, Len(st) - 1)

\* ---------------------------------------------------------------- registry
\* Written from spec.md 4.6.  A registry value R == [svcs, W, errs]; errs
\* collects the names whose start failed.

AddService(R, cfg) ==
  LET n == NewService(cfg, R.W)
      st == start(n.s, n.W)
  IN IF st.err
     THEN [R EXCEPT !.W = st.W, !.errs = @ \cup {cfg.Name}]
     ELSE [R EXCEPT !.W = st.W, !.svcs = (cfg.Name :> st.s) @@ @]

RemoveService(R, name) ==
  [R EXCEPT !.W = stop(R.svcs[name], @), !.svcs = Without(@, {name})]

\* Add the backends of bcfgs that s lacks or holds with other fields.
RECURSIVE AddChanged(_, _, _)
AddChanged(s, W, bcfgs) ==
  IF bcfgs = <<>> THEN [s |-> s, W |-> W]
  ELSE LET b == Head(bcfgs)
           i == FindBackend(s, W, b.Name)
       IN IF i # 0 /\ BackendConfigEqual(BackendConfigOf(W.insts[s.Backends[i]]), b)
          THEN AddChanged(s, W, Tail(bcfgs))
          ELSE LET id == FreeId(W.insts)
                   W1 == [W EXCEPT !.insts = (id :> NewBackend(b)) @@ @]
                   r == add(s, W1, id)
               IN AddChanged(r.s, r.W, Tail(bcfgs))

RECURSIVE RemoveAll(_, _, _)
RemoveAll(s, W, names) ==
  IF names = <<>> THEN [s |-> s, W |-> W]
  ELSE LET r == remove(s, W, Head(names))
       IN RemoveAll(r.s, r.W, Tail(names))

UpdateBackends(s, W, bcfgs) ==
  LET a == AddChanged(s, W, bcfgs)
      keep == {bcfgs[i].Name : i \in 1..Len(bcfgs)}
      gone == SelectSeq([i \in 1..Len(a.s.Backends) |-> a.W.insts[a.s.Backends[i]].Name],
                        LAMBDA nm : nm \notin keep)
  IN RemoveAll(a.s, a.W, gone)

UpdateService(R, cfg, backendsOnly) ==
  LET old == R.svcs[cfg.Name]
  IN IF ServiceConfigEqual(Config(old, R.W), cfg) \/ backendsOnly
     THEN LET u == UpdateBackends(old, R.W, cfg.Backends)
          IN [R EXCEPT !.W = u.W, !.svcs[cfg.Name] = u.s]
     ELSE AddService(RemoveService(R, cfg.Name), cfg)

RECURSIVE AddNew(_, _, _)
AddNew(R, cfgs, had) ==
  IF cfgs = <<>> THEN R
  ELSE AddNew(IF Head(cfgs).Name \in had THEN R ELSE AddService(R, Head(cfgs)),
              Tail(cfgs), had)

RECURSIVE DropAbsent(_, _, _)
DropAbsent(R, names, wanted) ==
  IF names = <<>> THEN R
  ELSE DropAbsent(IF Head(names) \in DOMAIN R.svcs /\ Head(names) \notin wanted
                  THEN RemoveService(R, Head(names)) ELSE R,
                  Tail(names), wanted)

RECURSIVE UpdateExisting(_, _, _, _)
UpdateExisting(R, cfgs, had, backendsOnly) ==
  IF cfgs = <<>> THEN R
  ELSE UpdateExisting(IF Head(cfgs).Name \in had
                      THEN UpdateService(R, Head(cfgs), backendsOnly) ELSE R,
                      Tail(cfgs), had, backendsOnly)

CfgNames(cfgs) == {cfgs[i].Name : i \in 1..Len(cfgs)}

UpdateConfig(R, cfgs, backendsOnly, order) ==
  LET had == DOMAIN R.svcs
      R1 == AddNew(R, cfgs, had)
      R2 == DropAbsent(R1, order, CfgNames(cfgs) \cup (DOMAIN R1.svcs \ had))
  IN UpdateExisting(R2, cfgs, had, backendsOnly)

\* Registry.Config: the ServiceConfig of every service
RegistryConfig(R, order) ==
  LET present == SelectSeq(order, LAMBDA n : n \in DOMAIN R.svcs)
  IN [i \in 1..Len(present) |-> Config(R.svcs[present[i]], R.W)]

\* -------------------------------------------------------------- the inputs
SvcOrder == <<"s1", "s2">>

BCfg(n, a, c, w, net) ==
  [Name |-> n, Addr |-> a, CheckAddr |-> c, Weight |-> w, Network |-> net]

B1 == BCfg("b1", "x1", "", 0, "")
\* b1 with another weight
B1w == BCfg("b1", "x1", "", 2, "")
\* b1 with its defaults written out
B1d == BCfg("b1", "x1", "", 1, "tcp")
\* b2 is health-checked
B2 == BCfg("b2", "x2", "c2", 1, "")

Base(n) ==
  [Name |-> n, Addr |-> "a1", Network |-> "", Balance |-> "",
   CheckInterval |-> 0, Fall |-> 0, Rise |-> 0,
   ClientTimeout |-> 0, ServerTimeout |-> 0, DialTimeout |-> 0,
   Backends |-> <<>>]

Pairs(n) ==
  {Base(n), [Base(n) EXCEPT !.Addr = PortZero],
   [Base(n) EXCEPT !.Network = "udp"], [Base(n) EXCEPT !.Network = "bad"],
   [Base(n) EXCEPT !.Backends = <<B2>>]}

\* The configurations posted under Spec: none, one or two services, names
\* distinct.
Cfgs ==
  \* Spec: two services that differ in address and network; one more variant
  \* with another balance and one with a health-checked backend.
  LET Topo(n) ==
        {[Base(n) EXCEPT !.Addr = a, !.Network = nw] :
           a \in {"a1", PortZero}, nw \in {"", "udp"}}
        \cup {[Base(n) EXCEPT !.Network = "bad"],
              [Base(n) EXCEPT !.Balance = "LC"],
              [Base(n) EXCEPT !.Backends = <<B2>>]}
  IN {<<>>}
     \cup {<<c>> : c \in Topo("s1") \cup Topo("s2")}
     \cup {<<c, d>> : c \in Pairs("s1"), d \in Pairs("s2")}
     \cup {<<d, c>> : c \in Pairs("s1"), d \in Pairs("s2")}

\* SpecService: one service, its backend list and its balance; the network
\* left empty or written out.
SvcCfgs ==
  LET BackendLists == {<<>>, <<B1>>, <<B1w>>, <<B1d, B2>>, <<B2>>}
  IN {<<>>}
     \cup {<<[Base("s1") EXCEPT !.Balance = bal, !.Backends = bs]>> :
             bal \in {"", "LC"}, bs \in BackendLists}
     \cup {<<[Base("s1") EXCEPT !.Network = "tcp", !.Backends = bs]>> :
             bs \in {<<B1>>, <<B1d, B2>>}}

\* SpecConns: the backend lists a connection can outlive.
ConnCfgs ==
  {<<>>}
  \cup {<<[Base("s1") EXCEPT !.Network = "tcp", !.Balance = bal, !.Backends = bs]>> :
          bal \in {"", "LC"}, bs \in {<<B1>>, <<B1d, B2>>}}

\* SpecHealth: a checked and an unchecked backend.
HealthCfgs ==
  {<<>>,
   <<[Base("s1") EXCEPT !.Network = "tcp", !.Backends = <<B1, B2>>]>>,
   <<[Base("s1") EXCEPT !.Network = "tcp", !.Rise = 3, !.Backends = <<B2>>]>>}

\* SpecBalance: unchecked backends of several weights under either policy,
\* and a checked one under least connections.
U2 == BCfg("b2", "x2", "", 1, "")
U3 == BCfg("b3", "x3", "", 2, "")

BalanceCfgs ==
  LET BalanceLists ==
        {<<B1>>, <<B1, U2>>, <<B1w, U2>>, <<B1, U2, U3>>}
  IN {<<[Base("s1") EXCEPT !.Network = "tcp", !.Balance = "RR", !.Backends = bs]>> :
        bs \in BalanceLists}
     \cup {<<[Base("s1") EXCEPT !.Network = "tcp", !.Balance = "LC", !.Backends = bs]>> :
             bs \in {<<B1, U2, U3>>, <<B1, B2>>}}

\* SpecChurn: a service of three backends, two of them health-checked, under
\* either policy; b3 is last in the list and moves when another is removed.
C3 == BCfg("b3", "x3", "c3", 2, "")

LoopCfgs ==
  \* SpecLoop: a tcp or a udp service, replaced, dropped, or joined by a second
  \* service whose start fails or succeeds; what the reads and writes of the
  \* loops return.
  LET B1p == BCfg("b1", "x1", "", 1, "udp")
  IN LET T == [Base("s1") EXCEPT !.Network = "tcp", !.Backends = <<B1>>]
         U == [Base("s1") EXCEPT !.Network = "udp", !.Backends = <<B1p>>]
     IN {<<>>, <<T>>, <<U>>, <<[U EXCEPT !.Backends = <<>>]>>,
         <<T, [Base("s2") EXCEPT !.Network = "bad"]>>,
         <<T, [Base("s2") EXCEPT !.Addr = PortZero]>>,
         <<U, [Base("s2") EXCEPT !.Network = "udp", !.Backends = <<B2>>]>>}

Reads ==
  {[n |-> k, err |-> "nil"] : k \in 0..2}
  \cup {[n |-> 0, err |-> e] : e \in {"temporary", "permanent"}}

Writes == {"nil", "temporary", "permanent"}

\* ------------------------------------------------------------ config files
\* A file holds JSON, or bytes that do not parse, or nothing.
Junk == [kind |-> "junk"]
Empty == [kind |-> "empty"]

\* json.Marshal of a ServiceConfig: balance, network and backends are tagged
\* omitempty.
marshalService(c) ==
  \* json.Marshal of a BackendConfig: network is tagged omitempty.
  LET marshalBackend(b) ==
        [k \in {"Name", "Addr", "CheckAddr", "Weight"}
               \cup (IF b.Network = "" THEN {} ELSE {"Network"}) |-> b[k]]
  IN [k \in {"Name", "Addr", "CheckInterval", "Fall", "Rise",
             "ClientTimeout", "ServerTimeout", "DialTimeout"}
            \cup (IF c.Balance = "" THEN {} ELSE {"Balance"})
            \cup (IF c.Network = "" THEN {} ELSE {"Network"})
            \cup (IF c.Backends = <<>> THEN {} ELSE {"Backends"}) |->
        IF k = "Backends"
        THEN [i \in 1..Len(c.Backends) |-> marshalBackend(c.Backends[i])]
        ELSE c[k]]

\* marshal(cfg): the bytes of a Config, its services in their order.
marshal(cfgs) ==
  [kind |-> "json", services |-> [i \in 1..Len(cfgs) |-> marshalService(cfgs[i])]]

unmarshalService(j) ==
  \* json.Unmarshal: a key the document lacks leaves the field zero.
  LET unmarshalBackend(jb) ==
        [Name |-> jb.Name, Addr |-> jb.Addr, CheckAddr |-> jb.CheckAddr,
         Weight |-> jb.Weight,
         Network |-> IF "Network" \in DOMAIN jb THEN jb.Network ELSE ""]
  IN [Name |-> j.Name, Addr |-> j.Addr,
      Network |-> IF "Network" \in DOMAIN j THEN j.Network ELSE "",
      Balance |-> IF "Balance" \in DOMAIN j THEN j.Balance ELSE "",
      CheckInterval |-> j.CheckInterval, Fall |-> j.Fall, Rise |-> j.Rise,
      ClientTimeout |-> j.ClientTimeout, ServerTimeout |-> j.ServerTimeout,
      DialTimeout |-> j.DialTimeout,
      Backends |-> IF "Backends" \in DOMAIN j
                   THEN [i \in 1..Len(j.Backends) |-> unmarshalBackend(j.Backends[i])]
                   ELSE <<>>]

Unmarshal(data) ==
  IF data.kind = "json"
  THEN [err |-> FALSE,
        cfgs |-> [i \in 1..Len(data.services) |-> unmarshalService(data.services[i])]]
  ELSE [err |-> TRUE, cfgs |-> <<>>]

\* loadConfig: the paths in turn; one that is unset, cannot be read or does
\* not parse is skipped, every other one is applied.
RECURSIVE loadConfig(_, _, _)
loadConfig(R, files, paths) ==
  IF paths = <<>> THEN R
  ELSE LET cfgPath == Head(paths)
       IN IF cfgPath = "" \/ cfgPath \notin DOMAIN files
          THEN loadConfig(R, files, Tail(paths))
          ELSE LET u == Unmarshal(files[cfgPath])
               IN IF u.err
                  THEN loadConfig(R, files, Tail(paths))
                  ELSE loadConfig(UpdateConfig(R, u.cfgs, FALSE, SvcOrder),
                                  files, Tail(paths))

\* writeStateConfig up to its decision: nothing to do without a state path
\* or when the file already holds the bytes of the current config.
writeStateConfig(R, files, stateConfig) ==
  LET cfg == marshal(RegistryConfig(R, SvcOrder))
  IN [write |-> /\ stateConfig # ""
                /\ (stateConfig \in DOMAIN files => files[stateConfig] # cfg),
      cfg |-> cfg]

FileCfgs ==
  {<<[Base("s1") EXCEPT !.Network = "tcp", !.Backends = <<B1>>]>>,
   <<[Base("s2") EXCEPT !.Addr = "a2", !.Network = "tcp", !.Backends = <<B2>>]>>}

FileData == {Junk} \cup {marshal(c) : c \in FileCfgs}

StartCfgs ==
  \* SpecStartup: the files the process is started with, and the
  \* configurations posted afterwards; b1 with the network of another family.
  LET B1u == BCfg("b1", "x1", "", 1, "udp")
  IN FileCfgs
     \cup {<<>>,
           <<[Base("s1") EXCEPT !.Network = "tcp", !.Backends = <<B1u>>]>>,
           <<[Base("s1") EXCEPT !.Network = "tcp", !.Balance = "LC", !.Backends = <<B1, B2>>]>>}

\* ------------------------------------------------------------ the actions
Idle == [st |-> "idle", op |-> "", arg |-> <<>>, errs |-> {}, trace |-> <<>>]

World == [insts |-> insts, lsns |-> lsns, trace |-> <<>>]

Reg == [svcs |-> svcs, W |-> World, errs |-> {}]

Fits(R) ==
  /\ Cardinality(DOMAIN R.W.insts) <= MaxInst
  /\ Cardinality(DOMAIN R.W.lsns) <= MaxLsn

\* The handler returns: the registry is R, the outcome is kept in req.
Commit(R, op, arg) ==
  /\ Fits(R)
  /\ svcs' = R.svcs
  /\ insts' = R.W.insts
  /\ lsns' = R.W.lsns
  /\ req' = [st |-> "done", op |-> op, arg |-> arg, errs |-> R.errs,
             trace |-> R.W.trace]
  /\ UNCHANGED <<conns, env>>

\* Backend objects nothing refers to any more and that run no task.
Garbage(ss, is, cs) ==
  {id \in DOMAIN is :
     /\ ~Checking(is[id])
     /\ \A n \in DOMAIN ss : id \notin Range(ss[n].Backends)
     /\ \A c \in DOMAIN cs : cs[c].b # id}

\* Heap ids are only names.  Between requests the heaps are kept dense and
\* in a fixed order: the objects services hold first, in registry order.
RECURSIVE SetToSeq(_)
SetToSeq(S) ==
  IF S = {} THEN <<>>
  ELSE LET m == CHOOSE x \in S : \A y \in S : x <= y
       IN <<m>> \o SetToSeq(S \ {m})

RECURSIVE Flatten(_)
Flatten(seqs) == IF seqs = <<>> THEN <<>> ELSE Head(seqs) \o Flatten(Tail(seqs))

Pos(seq, x) == CHOOSE i \in 1..Len(seq) : seq[i] = x

Compact(ss, is, ls, cs) ==
  LET present == SelectSeq(SvcOrder, LAMBDA n : n \in DOMAIN ss)
      held == Flatten([i \in 1..Len(present) |-> ss[present[i]].Backends])
      io == held \o SetToSeq((DOMAIN is) \ Range(held))
      bound == SelectSeq([i \in 1..Len(present) |-> ListenerOf(ss[present[i]])],
                         LAMBDA l : l # 0)
      lo == bound \o SetToSeq((DOMAIN ls) \ Range(bound))
  IN [svcs |-> [n \in DOMAIN ss |->
                  [ss[n] EXCEPT
                     !.Backends = [k \in 1..Len(ss[n].Backends) |-> Pos(io, ss[n].Backends[k])],
                     !.tcpListener = IF @ = 0 THEN 0 ELSE Pos(lo, @),
                     !.udpListener = IF @ = 0 THEN 0 ELSE Pos(lo, @)]],
      insts |-> [i \in 1..Len(io) |-> is[io[i]]],
      lsns |-> [i \in 1..Len(lo) |->
                  [ls[lo[i]] EXCEPT !.addr.eph = IF @ = 0 THEN 0 ELSE i]],
      conns |-> [c \in DOMAIN cs |-> [cs[c] EXCEPT !.b = Pos(io, @)]]]

Settle(ss, is, ls, cs) ==
  LET c == Compact(ss, Without(is, Garbage(ss, is, cs)), ls, cs)
  IN /\ svcs' = c.svcs
     /\ insts' = c.insts
     /\ lsns' = c.lsns
     /\ conns' = c.conns

\* POST / with a Config out of C, backends_only out of BO
PostConfig(C, BO) ==
  /\ req.st = "idle"
  /\ \E cfgs \in C, bo \in BO :
       Commit(UpdateConfig(Reg, cfgs, bo, SvcOrder), "UpdateConfig",
              [services |-> cfgs, backendsOnly |-> bo])

\* GET /_config, posted back as it was returned
RoundTrip ==
  /\ req.st = "idle"
  /\ LET snap == RegistryConfig(Reg, SvcOrder)
     IN Commit(UpdateConfig(Reg, snap, FALSE, SvcOrder), "RoundTrip",
               [services |-> snap, backendsOnly |-> FALSE])

\* PUT /service/backend
PutBackend ==
  LET BackendCfgs == {B1, B1w, B2}
  IN /\ req.st = "idle"
     /\ \E n \in DOMAIN svcs, b \in BackendCfgs :
          LET id == FreeId(insts)
              W1 == [World EXCEPT !.insts = (id :> NewBackend(b)) @@ @]
              r == add(svcs[n], W1, id)
          IN Commit([svcs |-> [svcs EXCEPT ![n] = r.s], W |-> r.W, errs |-> {}],
                    "AddBackend", [svc |-> n, b |-> b])

\* DELETE /service/backend
DeleteBackend ==
  /\ req.st = "idle"
  /\ \E n \in DOMAIN svcs, name \in {"b1", "b2"} :
       LET r == remove(svcs[n], World, name)
       IN Commit([svcs |-> [svcs EXCEPT ![n] = r.s], W |-> r.W,
                  errs |-> IF r.ok THEN {} ELSE {name}],
                 "RemoveBackend", [svc |-> n, name |-> name])

PutDefaults ==
  LET DefaultCfgs ==
        {[CheckInterval |-> 0, Fall |-> 3, Rise |-> 0,
          ClientTimeout |-> 5, ServerTimeout |-> 0, DialTimeout |-> 0]}
  IN /\ req.st = "idle"
     /\ \E n \in DOMAIN svcs, d \in DefaultCfgs :
          Commit([svcs |-> [svcs EXCEPT ![n] = UpdateDefaults(@, d)],
                  W |-> World, errs |-> {}],
                 "UpdateDefaults", [svc |-> n, cfg |-> d])

\* The response is written; objects no longer referenced are collected.
Return ==
  /\ req.st = "done"
  /\ req' = Idle
  /\ Settle(svcs, insts, lsns, conns)
  /\ UNCHANGED env

\* The dials counted on the backends ids of the heap is, good and failed.
RECURSIVE Dials(_, _)
Dials(is, ids) ==
  IF ids = {} THEN 0
  ELSE LET id == CHOOSE x \in ids : TRUE
       IN is[id].Conns + is[id].Errors + Dials(is, ids \ {id})

\* runTCP accepts a client and hands it to connectTCP.
Accept ==
  /\ req.st = "idle"
  /\ \E n \in DOMAIN svcs :
       /\ svcs[n].tcpListener # 0
       /\ lsns[svcs[n].tcpListener].open
       /\ lsns[svcs[n].tcpListener].loop = "running"
       /\ LET r == connectTCP(svcs[n], World, env.refused)
          IN /\ Dials(r.W.insts, DOMAIN r.W.insts) <= MaxConns
             /\ svcs' = [svcs EXCEPT ![n] = r.s]
             /\ insts' = r.W.insts
             /\ conns' = IF r.b = 0 THEN conns
                         ELSE (FreeId(conns) :> [b |-> r.b]) @@ conns
  /\ UNCHANGED <<lsns, env, req>>

\* A proxied connection ends: client or upstream closed, or a timeout.
CloseConn ==
  /\ req.st = "idle"
  /\ \E c \in DOMAIN conns :
       Settle(svcs, [insts EXCEPT ![conns[c].b].Active = @ - 1], lsns,
              Without(conns, {c}))
  /\ UNCHANGED <<env, req>>

\* Accept on a closed listener returns a permanent error: the loop returns.
LoopExit ==
  /\ req.st = "idle"
  /\ \E l \in DOMAIN lsns :
       /\ ~lsns[l].open
       /\ lsns[l].loop = "running"
       /\ Settle(svcs, insts, Without(lsns, {l}), conns)
  /\ UNCHANGED <<env, req>>

\* The health-check task of a backend wakes up and probes its check address.
Tick ==
  /\ req.st = "idle"
  /\ \E id \in DOMAIN insts :
       /\ Checking(insts[id])
       /\ insts' = [insts EXCEPT ![id] = check(@, @.CheckAddr \notin env.unreachable)]
  /\ UNCHANGED <<svcs, lsns, conns, env, req>>

Flip(S, a) == IF a \in S THEN S \ {a} ELSE S \cup {a}

\* The network changes: an upstream out of D starts or stops refusing dials,
\* a check address out of U becomes unreachable or reachable again.
Net(D, U) ==
  /\ req.st = "idle"
  /\ \/ \E a \in D : env' = [env EXCEPT !.refused = Flip(@, a)]
     \/ \E a \in U : env' = [env EXCEPT !.unreachable = Flip(@, a)]
  /\ UNCHANGED <<svcs, insts, lsns, conns, req>>

Init ==
  /\ svcs = <<>>
  /\ insts = <<>>
  /\ lsns = <<>>
  /\ conns = <<>>
  /\ env = [refused |-> {}, unreachable |-> {}]
  /\ req = Idle

\* Spec: the registry with two services.
Next ==
  \/ PostConfig(Cfgs, {FALSE})
  \/ Return
  \/ LoopExit

Spec == Init /\ [][Next]_vars

\* SpecService: one service and its backends under every control-plane call.
NextService ==
  \/ PostConfig(SvcCfgs, BOOLEAN)
  \/ RoundTrip
  \/ PutBackend
  \/ DeleteBackend
  \/ PutDefaults
  \/ Return
  \/ LoopExit

SpecService == Init /\ [][NextService]_vars

\* SpecConns: connections proxied while the backends are reconfigured.
NextConns ==
  \/ PostConfig(ConnCfgs, BOOLEAN)
  \/ PutBackend
  \/ DeleteBackend
  \/ Return
  \/ Accept
  \/ CloseConn
  \/ LoopExit

SpecConns == Init /\ [][NextConns]_vars

\* SpecHealth: health checks and dials against a changing network.
NextHealth ==
  \/ PostConfig(HealthCfgs, {FALSE})
  \/ PutDefaults
  \/ Return
  \/ Accept
  \/ CloseConn
  \/ Tick
  \/ Net({"x1"}, {"c2"})
  \/ LoopExit

SpecHealth == Init /\ [][NextHealth]_vars

\* SpecCheck: the health-check step on its own: a started backend, run with
\* every pair of thresholds.
InitCheck ==
  /\ svcs = <<>>
  /\ lsns = <<>>
  /\ conns = <<>>
  /\ env = [refused |-> {}, unreachable |-> {}]
  /\ req = Idle
  /\ \E r \in 0..MaxThreshold, f \in 0..MaxThreshold :
       insts = <<[NewBackend(B2) EXCEPT !.started = TRUE, !.up = TRUE,
                                        !.checkInterval = 2000 * Millisecond,
                                        !.rise = r, !.fall = f]>>

NextCheck ==
  \/ Tick
  \/ Net({}, {"c2"})

SpecCheck == InitCheck /\ [][NextCheck]_vars

\* SpecBalance: the traffic of one service from its start on, its backend
\* list left alone.
Fresh ==
  /\ svcs = <<>>
  /\ PostConfig(BalanceCfgs, {FALSE})

\* runTCP accepts a client and hands it to connectTCP; a proxied connection
\* starts with both its copying tasks running.
Serve ==
  /\ req.st = "idle"
  /\ \E n \in DOMAIN svcs :
       /\ svcs[n].tcpListener # 0
       /\ lsns[svcs[n].tcpListener].open
       /\ lsns[svcs[n].tcpListener].loop = "running"
       /\ LET r == connectTCP(svcs[n], World, env.refused)
          IN /\ Dials(r.W.insts, DOMAIN r.W.insts) <= MaxPicks
             /\ svcs' = [svcs EXCEPT ![n] = r.s]
             /\ insts' = r.W.insts
             /\ conns' = IF r.b = 0 THEN conns
                         ELSE (FreeId(conns) :> [b |-> r.b, halves |-> 2]) @@ conns
             /\ Cardinality(DOMAIN conns') <= MaxOpen
  /\ UNCHANGED <<lsns, env, req>>

\* One copying task of a proxied connection returns.
ShovelExit ==
  /\ req.st = "idle"
  /\ \E c \in DOMAIN conns :
       LET r == ProxyExit(insts, conns, c)
       IN Settle(svcs, r.insts, lsns, r.conns)
  /\ UNCHANGED <<env, req>>

\* The network changes for a backend there is: its address, if it is one of
\* D, starts or stops refusing dials, or its check address becomes unreachable
\* or reachable again.
Outage(D) ==
  /\ req.st = "idle"
  /\ \E id \in DOMAIN insts :
       \/ insts[id].Addr \in D /\ env' = [env EXCEPT !.refused = Flip(@, insts[id].Addr)]
       \/ /\ insts[id].CheckAddr # ""
          /\ env' = [env EXCEPT !.unreachable = Flip(@, insts[id].CheckAddr)]
  /\ UNCHANGED <<svcs, insts, lsns, conns, req>>

NextBalance ==
  \/ Fresh
  \/ Return
  \/ Serve
  \/ ShovelExit
  \/ Tick
  \/ Outage({"x1", "x2"})

SpecBalance == Init /\ [][NextBalance]_vars

\* SpecStartup: the process starts with a state path and a default path, each
\* set or not, and with the files they name; it loads them, serves
\* configuration requests and saves its state.
InitStartup ==
  /\ svcs = <<>>
  /\ insts = <<>>
  /\ lsns = <<>>
  /\ conns = <<>>
  /\ req = [Idle EXCEPT !.st = "boot"]
  /\ \E sp \in {"", "state.json"}, dp \in {"", "default.json"} :
       \E sf \in [{sp} \ {""} -> FileData] \cup {<<>>},
          df \in [{dp} \ {""} -> FileData] \cup {<<>>} :
         env = [refused |-> {}, unreachable |-> {},
                stateConfig |-> sp, defaultConfig |-> dp, files |-> sf @@ df]

\* main calls loadConfig before it serves requests.
LoadConfig ==
  /\ req.st = "boot"
  /\ Commit(loadConfig(Reg, env.files, <<env.stateConfig, env.defaultConfig>>),
            "loadConfig", [files |-> env.files])

\* writeStateConfig, called with the registry at rest.  ioutil.WriteFile
\* opens the file truncating it, then writes; configMutex keeps a second
\* call out until the first has returned.
SaveBegin ==
  /\ req.st = "idle"
  /\ LET w == writeStateConfig(Reg, env.files, env.stateConfig)
     IN /\ w.write
        /\ env' = [env EXCEPT !.files = (env.stateConfig :> Empty) @@ @]
        /\ req' = [st |-> "writing", op |-> "writeStateConfig", arg |-> w.cfg,
                   errs |-> {}, trace |-> <<>>]
  /\ UNCHANGED <<svcs, insts, lsns, conns>>

SaveEnd ==
  /\ req.st = "writing"
  /\ env' = [env EXCEPT !.files = (env.stateConfig :> req.arg) @@ @]
  /\ req' = Idle
  /\ UNCHANGED <<svcs, insts, lsns, conns>>

NextStartup ==
  \/ LoadConfig
  \/ PostConfig(StartCfgs, {FALSE})
  \/ Return
  \/ SaveBegin
  \/ SaveEnd
  \/ LoopExit

SpecStartup == InitStartup /\ [][NextStartup]_vars

\* SpecEqual: ServiceConfig.Equal on its own, asked about every pair of
\* configurations.
Compare ==
  \* SpecEqual: service configurations with their defaults left out or
  \* written out.
  LET EqualCfgs ==
        {[Base("s1") EXCEPT !.Balance = bal, !.Network = nw, !.CheckInterval = ci,
                            !.Rise = r, !.Fall = f, !.Backends = bs] :
           bal \in {"", "RR", "LC"}, nw \in {"", "tcp", "udp"}, ci \in {0, 2000},
           r \in {0, 2}, f \in {0, 2, 3}, bs \in {<<>>, <<B1>>}}
  IN /\ req.st = "idle"
     /\ \E s \in EqualCfgs, other \in EqualCfgs :
          req' = [st |-> "done", op |-> "Equal", arg |-> [s |-> s, other |-> other],
                  errs |-> {}, trace |-> <<>>, ret |-> ServiceConfigEqual(s, other)]
     /\ UNCHANGED <<svcs, insts, lsns, conns, env>>

NextEqual ==
  \/ Compare
  \/ Return

SpecEqual == Init /\ [][NextEqual]_vars

\* SpecDeepEqual: ServiceConfig.DeepEqual asked about every pair of
\* configurations.
CompareDeep ==
  \* SpecDeepEqual: service configurations with backend lists that differ in
  \* names, fields, defaults, order and length.
  LET DeepCfgs ==
        {[Base("s1") EXCEPT !.Network = nw, !.Balance = bal, !.Backends = bs] :
           nw \in {"", "tcp"}, bal \in {"", "LC"},
           bs \in {<<>>, <<B1>>, <<B1w>>, <<B1d>>, <<B2>>, <<C3>>,
                   <<B1, B2>>, <<B2, B1d>>, <<B1, C3>>, <<B1w, B2>>}}
  IN /\ req.st = "idle"
     /\ \E s \in DeepCfgs, other \in DeepCfgs :
          req' = [st |-> "done", op |-> "DeepEqual",
                  arg |-> [s |-> s, other |-> other], errs |-> {}, trace |-> <<>>,
                  ret |-> ServiceConfigDeepEqual(s, other)]
     /\ UNCHANGED <<svcs, insts, lsns, conns, env>>

NextDeepEqual ==
  \/ CompareDeep
  \/ Return

SpecDeepEqual == Init /\ [][NextDeepEqual]_vars

\* SpecChurn: the policy asked again and again while backends are added,
\* replaced and removed and go down and up.
Launch ==
  LET ChurnCfgs ==
        {<<[Base("s1") EXCEPT !.Network = "tcp", !.Balance = bal,
                              !.Backends = <<B1w, B2, C3>>]>> : bal \in {"RR", "LC"}}
  IN /\ svcs = <<>>
     /\ PostConfig(ChurnCfgs, {FALSE})

\* Service.NextAddrs: the addresses of the backends the policy returns, in
\* its order.  The call advances the round-robin state as any pick does; the
\* index it started from is kept with the outcome.
NextAddrs ==
  /\ req.st = "idle"
  /\ \E n \in DOMAIN svcs :
       LET p == next(svcs[n], World)
       IN /\ svcs' = [svcs EXCEPT ![n] = p.s]
          /\ req' = [st |-> "done", op |-> "NextAddrs",
                     arg |-> [svc |-> n, lastBackend |-> svcs[n].lastBackend],
                     errs |-> {}, trace |-> <<>>,
                     ret |-> [i \in 1..Len(p.list) |-> insts[p.list[i]].Addr]]
  /\ UNCHANGED <<insts, lsns, conns, env>>

NextChurn ==
  \/ Launch
  \/ NextAddrs
  \/ PutBackend
  \/ DeleteBackend
  \/ Return
  \/ Tick
  \/ Outage({})

SpecChurn == Init /\ [][NextChurn]_vars

\* SpecLoop: the accept and read loops under the errors their sockets return.
\* Accept fails on an open listener, with a temporary error or another; err
\* is the local variable of runTCP that holds it.
AcceptError ==
  /\ req.st = "idle"
  /\ \E l \in DOMAIN lsns, err \in {"temporary", "permanent"} :
       /\ lsns[l].open /\ lsns[l].fam = "tcp" /\ lsns[l].loop = "running"
       /\ lsns' = [lsns EXCEPT
                     ![l] = [err |-> err] @@ [@ EXCEPT !.loop = runTCP(err)]]
  /\ UNCHANGED <<svcs, insts, conns, env, req>>

\* The warning is logged; the loop of the socket l continues.
WarnedAt(l) ==
  /\ l \in DOMAIN lsns
  /\ lsns[l].loop = "warn"
  /\ lsns' = [lsns EXCEPT
                ![l] = [k \in (DOMAIN lsns[l]) \ {"err"} |->
                          IF k = "loop" THEN "running" ELSE lsns[l][k]]]
  /\ UNCHANGED <<svcs, insts, conns, env, req>>

Warned == \E l \in DOMAIN lsns : WarnedAt(l)

\* One turn of runUDP on the open socket of a service.
Datagram ==
  /\ req.st = "idle"
  /\ \E n \in DOMAIN svcs, rd \in Reads, wr \in Writes :
       /\ svcs[n].udpListener # 0
       /\ lsns[svcs[n].udpListener].open
       /\ lsns[svcs[n].udpListener].loop = "running"
       /\ LET r == runUDP(svcs[n], World, rd, wr)
          IN /\ r.s.Rcvd <= MaxBytes
             /\ svcs' = [svcs EXCEPT ![n] = r.s]
             /\ lsns' = [lsns EXCEPT ![svcs[n].udpListener].loop = r.loop]
  /\ UNCHANGED <<insts, conns, env, req>>

\* A closed socket whose loop has returned is gone.
Reap ==
  /\ req.st = "idle"
  /\ \E l \in DOMAIN lsns :
       /\ ~lsns[l].open
       /\ lsns[l].loop = "exited"
       /\ Settle(svcs, insts, Without(lsns, {l}), conns)
  /\ UNCHANGED <<env, req>>

NextLoop ==
  \/ PostConfig(LoopCfgs, {FALSE})
  \/ Return
  \/ AcceptError
  \/ Warned
  \/ Datagram
  \/ LoopExit
  \/ Reap

SpecLoop == Init /\ [][NextLoop]_vars

\* SpecLoopFair: the accept loops of tcp services, scheduled fairly.  A
\* configuration is posted when no loop of a closed listener is left over
\* from an earlier one, so that the loops a stop leaves behind are told apart
\* from those of the next.
Repost ==
  \* SpecLoopFair: tcp services only.
  LET FairCfgs ==
        LET T == [Base("s1") EXCEPT !.Network = "tcp", !.Backends = <<B1>>]
        IN {<<>>, <<T>>, <<[T EXCEPT !.Balance = "LC"]>>,
            <<T, [Base("s2") EXCEPT !.Addr = PortZero]>>,
            <<T, [Base("s2") EXCEPT !.Backends = <<B2>>]>>}
  IN /\ \A l \in DOMAIN lsns : lsns[l].open \/ lsns[l].loop = "exited"
     /\ PostConfig(FairCfgs, {FALSE})

\* Accept fails on the closed listener l, whatever the handlers are doing:
\* the error is not temporary, and runTCP returns.
LoopReturnAt(l) ==
  /\ l \in DOMAIN lsns
  /\ ~lsns[l].open
  /\ lsns[l].loop = "running"
  /\ lsns' = [lsns EXCEPT ![l].loop = runTCP("permanent")]
  /\ UNCHANGED <<svcs, insts, conns, env, req>>

NextLoopFair ==
  \/ Repost
  \/ Return
  \/ Accept
  \/ CloseConn
  \/ AcceptError
  \/ Warned
  \/ \E l \in DOMAIN lsns : LoopReturnAt(l)
  \/ Reap

\* A goroutine that can run does run: each accept loop that is logging a
\* warning, and each whose Accept has failed on a closed listener.
SpecLoopFair ==
  /\ Init
  /\ [][NextLoopFair]_vars
  /\ \A l \in 1..MaxLsn : WF_vars(WarnedAt(l)) /\ WF_vars(LoopReturnAt(l))

\* SpecStop: one backend object, started with or without a health check,
\* and the calls of Backend.Stop on it.
InitStop ==
  /\ svcs = <<>>
  /\ lsns = <<>>
  /\ conns = <<>>
  /\ env = [refused |-> {}, unreachable |-> {}]
  /\ req = Idle
  /\ \E cfg \in {B1, B2}, r \in 1..MaxThreshold, f \in 1..MaxThreshold :
       LET b == [NewBackend(cfg) EXCEPT !.started = TRUE, !.up = TRUE,
                                        !.checkInterval = 2000 * Millisecond,
                                        !.rise = r, !.fall = f]
       IN insts = <<b @@ [task |-> HealthTask(b), stops |-> 0]>>

\* Backend.Stop is called: the task is signalled.
StopCall ==
  /\ req.st = "idle"
  /\ \E id \in DOMAIN insts :
       /\ insts[id].stops < MaxStops
       /\ insts' = [BackendStop(World, id).insts EXCEPT ![id].stops = @ + 1]
       /\ req' = [Idle EXCEPT !.st = "stopping", !.op = "Stop",
                              !.arg = [id |-> id, was |-> insts[id]]]
  /\ UNCHANGED <<svcs, lsns, conns, env>>

\* The health-check task sees the signal and exits.
TaskExit ==
  /\ \E id \in DOMAIN insts :
       /\ insts[id].task = "running"
       /\ insts[id].stopped
       /\ insts' = [insts EXCEPT ![id].task = "exited"]
  /\ UNCHANGED <<svcs, lsns, conns, env, req>>

\* Backend.Stop returns.
StopDone ==
  /\ req.st = "stopping"
  /\ ~StopWaits(insts[req.arg.id])
  /\ req' = [req EXCEPT !.st = "done"]
  /\ UNCHANGED <<svcs, insts, lsns, conns, env>>

\* The caller goes on; the backend object stays.
StopReturn ==
  /\ req.st = "done"
  /\ req' = Idle
  /\ UNCHANGED <<svcs, insts, lsns, conns, env>>

NextStop ==
  \/ StopCall
  \/ TaskExit
  \/ StopDone
  \/ StopReturn
  \/ Tick
  \/ Net({}, {"c2"})

\* A task that can run does run.
SpecStop ==
  /\ InitStop
  /\ [][NextStop]_vars
  /\ WF_vars(TaskExit)
  /\ WF_vars(StopDone)

\* SpecLock: three goroutines on one service, step by step.  A pick reads
\* the list and the round-robin state and then writes the state back; remove
\* moves the last backend into the freed slot and then cuts the list; all of
\* it between Lock and Unlock.
InitLock ==
  /\ svcs = <<>>
  /\ insts = <<>>
  /\ lsns = <<>>
  /\ conns = <<>>
  /\ req = Idle
  /\ env = [refused |-> {}, unreachable |-> {}, lock |-> "", raced |-> FALSE,
            tasks |-> <<>>, s0 |-> <<>>, W0 |-> <<>>]

\* Two connections are accepted at once while a third goroutine calls op.
Spawn ==
  \* SpecLock: what the third caller may be doing: a pick, an add or a remove.
  LET LockOps ==
        {[op |-> "pick", arg |-> ""]}
        \cup {[op |-> "add", arg |-> b] : b \in {B1, B2}}
        \cup {[op |-> "remove", arg |-> nm] : nm \in {"b1", "b2"}}
  IN /\ req.st = "idle"
     /\ "s1" \in DOMAIN svcs
     /\ ~env.raced
     /\ \E o \in LockOps :
          env' = [env EXCEPT
                    !.raced = TRUE, !.s0 = svcs["s1"], !.W0 = insts,
                    !.tasks = [t \in TaskIds |->
                                 [op |-> IF t = "t3" THEN o.op ELSE "pick",
                                  arg |-> IF t = "t3" THEN o.arg ELSE "",
                                  pc |-> "start", local |-> <<>>, ret |-> <<>>]]]
     /\ req' = [Idle EXCEPT !.st = "racing", !.op = "Race"]
     /\ UNCHANGED <<svcs, insts, lsns, conns>>

\* s.Lock()
Acquire(t) ==
  /\ req.st = "racing"
  /\ env.tasks[t].pc = "start"
  /\ LockFree(env)
  /\ env' = [env EXCEPT !.lock = t, !.tasks[t].pc = "locked"]
  /\ UNCHANGED <<svcs, insts, lsns, conns, req>>

\* The policy reads the backend list and the round-robin state and works out
\* its answer; a list with a nil in it makes it fail.
PickRead(t) ==
  /\ req.st = "racing"
  /\ env.tasks[t].op = "pick" /\ env.tasks[t].pc = "locked"
  /\ env' = [env EXCEPT
               !.tasks[t].pc = "read",
               !.tasks[t].local =
                  IF 0 \in Range(svcs["s1"].Backends)
                  THEN [s |-> svcs["s1"], list |-> <<0>>]
                  ELSE next(svcs["s1"], World)]
  /\ UNCHANGED <<svcs, insts, lsns, conns, req>>

\* The policy writes the round-robin state back and returns its list.
PickWrite(t) ==
  /\ req.st = "racing"
  /\ env.tasks[t].op = "pick" /\ env.tasks[t].pc = "read"
  /\ svcs' = [svcs EXCEPT
                !["s1"].lastBackend = env.tasks[t].local.s.lastBackend,
                !["s1"].lastCount = env.tasks[t].local.s.lastCount]
  /\ env' = [env EXCEPT !.tasks[t].pc = "written",
                        !.tasks[t].ret = env.tasks[t].local.list,
                        !.tasks[t].local = <<>>]
  /\ UNCHANGED <<insts, lsns, conns, req>>

\* Service.add between Lock and Unlock.
AddApply(t) ==
  /\ req.st = "racing"
  /\ env.tasks[t].op = "add" /\ env.tasks[t].pc = "locked"
  /\ LET id == FreeId(insts)
         W1 == [World EXCEPT !.insts = (id :> NewBackend(env.tasks[t].arg)) @@ @]
         r == add(svcs["s1"], W1, id)
     IN /\ svcs' = [svcs EXCEPT !["s1"] = r.s]
        /\ insts' = r.W.insts
  /\ env' = [env EXCEPT !.tasks[t].pc = "written"]
  /\ UNCHANGED <<lsns, conns, req>>

\* Service.remove: s.Backends[i], s.Backends[last] = s.Backends[last], nil
RemoveSwap(t) ==
  /\ req.st = "racing"
  /\ env.tasks[t].op = "remove" /\ env.tasks[t].pc = "locked"
  /\ LET s == svcs["s1"]
         i == FindBackend(s, World, env.tasks[t].arg)
         last == Len(s.Backends)
     IN IF i = 0
        THEN /\ env' = [env EXCEPT !.tasks[t].pc = "written"]
             /\ UNCHANGED svcs
        ELSE /\ svcs' = [svcs EXCEPT
                           !["s1"].Backends =
                              [[@ EXCEPT ![i] = s.Backends[last]] EXCEPT ![last] = 0]]
             /\ env' = [env EXCEPT !.tasks[t].pc = "swapped",
                                   !.tasks[t].local = s.Backends[i]]
  /\ UNCHANGED <<insts, lsns, conns, req>>

\* Service.remove: s.Backends = s.Backends[:last]; deleted.Stop()
RemoveCut(t) ==
  /\ req.st = "racing"
  /\ env.tasks[t].op = "remove" /\ env.tasks[t].pc = "swapped"
  /\ svcs' = [svcs EXCEPT !["s1"].Backends = SubSeq(@, 1, Len(@) - 1)]
  /\ insts' = BackendStop(World, env.tasks[t].local).insts
  /\ env' = [env EXCEPT !.tasks[t].pc = "written", !.tasks[t].local = <<>>]
  /\ UNCHANGED <<lsns, conns, req>>

\* s.Unlock()
Release(t) ==
  /\ req.st = "racing"
  /\ env.tasks[t].pc = "written"
  /\ env' = [env EXCEPT !.lock = IF @ = t THEN "" ELSE @,
                        !.tasks[t].pc = "done"]
  /\ UNCHANGED <<svcs, insts, lsns, conns, req>>

\* The three calls have returned.
Joined ==
  /\ req.st = "racing"
  /\ \A t \in TaskIds : env.tasks[t].pc = "done"
  /\ req' = [req EXCEPT !.st = "done"]
  /\ UNCHANGED <<svcs, insts, lsns, conns, env>>

NextLock ==
  \/ Launch
  \/ Return
  \/ NextAddrs
  \/ Tick
  \/ Outage({})
  \/ Spawn
  \/ \E t \in TaskIds : Acquire(t)
  \/ \E t \in TaskIds : PickRead(t)
  \/ \E t \in TaskIds : PickWrite(t)
  \/ \E t \in TaskIds : AddApply(t)
  \/ \E t \in TaskIds : RemoveSwap(t)
  \/ \E t \in TaskIds : RemoveCut(t)
  \/ \E t \in TaskIds : Release(t)
  \/ Joined

SpecLock == InitLock /\ [][NextLock]_vars

\* SpecRouter: two goroutines calling the started HTTP router, step by step.
\* A step is Lock, the statements between Lock and the next call, or the
\* deferred Unlock with the return.
InitRouter ==
  \* A router value r == [mu, objs, balancers, routes]: mu is the embedded
  \* sync.Mutex (TRUE while locked), objs the heap of roundrobin balancers,
  \* each the list of its endpoint urls, balancers the map vhost -> balancer
  \* and routes the vhosts the host router has a route for.
  LET NewHTTPRouter == [mu |-> FALSE, objs |-> <<>>, balancers |-> <<>>, routes |-> {}]
  IN /\ svcs = <<>>
     /\ insts = <<>>
     /\ lsns = <<>>
     /\ conns = <<>>
     /\ req = Idle
     /\ env = [refused |-> {}, unreachable |-> {}, router |-> NewHTTPRouter,
               stacks |-> [t \in {"g1", "g2"} |-> <<>>], calls |-> 0]

\* A goroutine that is in no call makes one.
RouterCall(t) ==
  \* SpecRouter: the calls made on the router: one vhost with up to two
  \* endpoints, and the empty arguments the methods test for.
  LET RouterCalls ==
        {Frame("AddBackend", h, u, {}, "lock") : h \in {"", "h1"}, u \in {"", "u1", "u2"}}
        \cup {Frame("RemoveBackend", h, u, {}, "lock") : h \in {"", "h1"}, u \in {"", "u1", "u2"}}
        \cup {Frame("RemoveBackends", h, "", a, "start") : h \in {"", "h1"}, a \in {{}, {"u1"}}}
        \cup {Frame("RemoveRouter", h, "", {}, "lock") : h \in {"", "h1"}}
        \cup {Frame("statusHandler", h, "", {}, "lock") : h \in {"h1", "h2"}}
  IN /\ env.stacks[t] = <<>>
     /\ env.calls < MaxCalls
     /\ \E c \in RouterCalls :
          env' = [env EXCEPT !.stacks[t] = <<c>>, !.calls = @ + 1]
     /\ UNCHANGED <<svcs, insts, lsns, conns, req>>

\* s.Lock()
RouterLock(t) ==
  \* sync.Mutex: Lock() returns when the mutex is unlocked, whoever locked it.
  LET MutexFree(r) == ~r.mu
  IN /\ env.stacks[t] # <<>>
     /\ Top(env.stacks[t]).pc = "lock"
     /\ MutexFree(env.router)
     /\ env' = [env EXCEPT !.router.mu = TRUE,
                           !.stacks[t][Len(env.stacks[t])].pc = "locked",
                           !.stacks[t][Len(env.stacks[t])].held = TRUE]
     /\ UNCHANGED <<svcs, insts, lsns, conns, req>>

\* The body of AddBackend.
AddBackendBody(t) ==
  /\ env.stacks[t] # <<>>
  /\ LET f == Top(env.stacks[t])
     IN /\ f.fn = "AddBackend" /\ f.pc = "locked"
        /\ env' = [env EXCEPT !.router = AddBackend(@, f.vhost, f.url),
                              !.stacks[t][Len(env.stacks[t])].pc = "unlock"]
  /\ UNCHANGED <<svcs, insts, lsns, conns, req>>

\* The body of RemoveBackend, up to the call s.RemoveRouter(vhost) it makes
\* when the balancer has no endpoint left.
RemoveBackendBody(t) ==
  /\ env.stacks[t] # <<>>
  /\ LET f == Top(env.stacks[t])
         x == RemoveBackend(env.router, f.vhost, f.url)
         n == Len(env.stacks[t])
     IN /\ f.fn = "RemoveBackend" /\ f.pc = "locked"
        /\ env' = [env EXCEPT
                     !.router = x.r,
                     !.stacks[t] =
                        IF x.call
                        THEN Append([@ EXCEPT ![n].pc = "unlock"],
                                    Frame("RemoveRouter", f.vhost, "", {}, "lock"))
                        ELSE [@ EXCEPT ![n].pc = "unlock"]]
  /\ UNCHANGED <<svcs, insts, lsns, conns, req>>

\* The body of RemoveRouter.
RemoveRouterBody(t) ==
  /\ env.stacks[t] # <<>>
  /\ LET f == Top(env.stacks[t])
     IN /\ f.fn = "RemoveRouter" /\ f.pc = "locked"
        /\ env' = [env EXCEPT !.router = RemoveRouter(@, f.vhost),
                              !.stacks[t][Len(env.stacks[t])].pc = "unlock"]
  /\ UNCHANGED <<svcs, insts, lsns, conns, req>>

\* RemoveBackends: balancer := s.balancers[vhost]; s.Unlock()
RemoveBackendsRead(t) ==
  /\ env.stacks[t] # <<>>
  /\ LET f == Top(env.stacks[t])
         n == Len(env.stacks[t])
     IN /\ f.fn = "RemoveBackends" /\ f.pc = "locked"
        /\ env' = [env EXCEPT
                     !.router.mu = FALSE,
                     !.stacks[t][n].held = FALSE,
                     !.stacks[t][n].bal = Balancer(env.router, f.vhost),
                     !.stacks[t][n].pc = "read"]
  /\ UNCHANGED <<svcs, insts, lsns, conns, req>>

\* RemoveBackends outside the mutex: the test of vhost at its start, the test
\* of balancer and endpoints := balancer.GetEndpoints() after the Unlock, and
\* then one round of the loop over endpoints, or the return after the last.
RemoveBackendsStep(t) ==
  /\ env.stacks[t] # <<>>
  /\ LET f == Top(env.stacks[t])
         n == Len(env.stacks[t])
     IN /\ f.fn = "RemoveBackends" /\ f.pc \in {"start", "read", "loop"}
        /\ env' = [env EXCEPT
                     !.stacks[t] =
                        IF f.pc = "start"
                        THEN IF f.vhost = ""
                             THEN Pop(@)
                             ELSE [@ EXCEPT ![n].pc = "lock"]
                        ELSE IF f.pc = "read"
                        THEN IF f.bal = 0
                             THEN Pop(@)
                             ELSE [@ EXCEPT ![n].pc = "loop",
                                            ![n].todo = env.router.objs[f.bal]]
                        ELSE IF f.todo = <<>>
                        THEN Pop(@)
                        ELSE IF Head(f.todo) \in f.addrs
                        THEN [@ EXCEPT ![n].todo = Tail(f.todo)]
                        ELSE Append([@ EXCEPT ![n].todo = Tail(f.todo)],
                                    Frame("RemoveBackend", f.vhost,
                                          Head(f.todo), {}, "lock"))]
  /\ UNCHANGED <<svcs, insts, lsns, conns, req>>

\* statusHandler: _, exists := s.balancers[host]; s.Unlock(); then the
\* request is served, by adminHandler if the host has no balancer.
StatusRead(t) ==
  /\ env.stacks[t] # <<>>
  /\ LET f == Top(env.stacks[t])
         n == Len(env.stacks[t])
     IN /\ f.fn = "statusHandler" /\ f.pc = "locked"
        /\ env' = [env EXCEPT
                     !.router.mu = FALSE,
                     !.stacks[t] =
                        IF Balancer(env.router, f.vhost) # 0
                        THEN Pop(@)
                        ELSE Append(Pop(@),
                                    Frame("adminHandler", f.vhost, "", {}, "lock"))]
  /\ UNCHANGED <<svcs, insts, lsns, conns, req>>

\* The body of adminHandler writes the response.
AdminBody(t) ==
  /\ env.stacks[t] # <<>>
  /\ LET f == Top(env.stacks[t])
     IN /\ f.fn = "adminHandler" /\ f.pc = "locked"
        /\ env' = [env EXCEPT !.stacks[t][Len(env.stacks[t])].pc = "unlock"]
  /\ UNCHANGED <<svcs, insts, lsns, conns, req>>

\* defer s.Unlock(), and the return to the caller.
RouterUnlock(t) ==
  /\ env.stacks[t] # <<>>
  /\ Top(env.stacks[t]).pc = "unlock"
  /\ env' = [env EXCEPT !.router.mu = FALSE, !.stacks[t] = Pop(@)]
  /\ UNCHANGED <<svcs, insts, lsns, conns, req>>

\* Any goroutine takes its next step.
NextRouter ==
  \E t \in DOMAIN env.stacks :
     \/ RouterCall(t)
     \/ RouterLock(t)
     \/ AddBackendBody(t)
     \/ RemoveBackendBody(t)
     \/ RemoveRouterBody(t)
     \/ RemoveBackendsRead(t)
     \/ RemoveBackendsStep(t)
     \/ StatusRead(t)
     \/ AdminBody(t)
     \/ RouterUnlock(t)

SpecRouter == InitRouter /\ [][NextRouter]_vars

\* -------------------------------------------------------------- properties
\* The step in which the handler of op returns: the unprimed variables are the
\* registry it was called on, req' holds its arguments and its outcome.
Returns(op) == req.st = "idle" /\ req'.st = "done" /\ req'.op = op

Done(op) == req.st = "done" /\ req.op = op

WorldAfter == [insts |-> insts', lsns |-> lsns', trace |-> <<>>]

\* The positions of the events of one kind in a trace.
Where(trace, kind) == {k \in 1..Len(trace) : trace[k][1] = kind}

\* The network family a configuration asks for; "" if it names none.
Fam(cfg) ==
  IF cfg.Network \in TCPNets \cup {""} THEN "tcp"
  ELSE IF cfg.Network \in UDPNets THEN "udp" ELSE ""

\* The backend object service record s holds under the name nm, 0 if none.
HeldAs(s, is, nm) ==
  LET I == {k \in 1..Len(s.Backends) : is[s.Backends[k]].Name = nm}
  IN IF I = {} THEN 0 ELSE s.Backends[CHOOSE k \in I : TRUE]

BackendNames(s, is) == {is[s.Backends[k]].Name : k \in 1..Len(s.Backends)}

\* C1: in every reachable registry state, update_config applied to the value
\* snapshot_config returns changes nothing: the same services with the same
\* fields and backend objects, the same heap of backends and listeners, no
\* listener closed or bound, no backend stopped or started, no error.
ConfigRoundTrip ==
  LET R == UpdateConfig(Reg, RegistryConfig(Reg, SvcOrder), FALSE, SvcOrder)
  IN /\ R.svcs = svcs
     /\ R.W.insts = insts
     /\ R.W.lsns = lsns
     /\ R.W.trace = <<>>
     /\ R.errs = {}

\* A snapshot of a service with two backends and changed defaults was posted
\* back.
RoundTripDone ==
  /\ Done("RoundTrip")
  /\ Len(req.arg.services) = 1
  /\ \E n \in DOMAIN svcs :
       Len(svcs[n].Backends) = 2 /\ svcs[n].ClientTimeout # 0 /\ svcs[n].Fall = 3

\* Every registered service holds an open listener, and no two of them hold
\* the same (family, bound address).
ListenersDistinct ==
  /\ \A n \in DOMAIN svcs :
       ListenerOf(svcs[n]) \in DOMAIN lsns /\ lsns[ListenerOf(svcs[n])].open
  /\ \A n, m \in DOMAIN svcs :
       n # m =>
         LET a == lsns[ListenerOf(svcs[n])]
             b == lsns[ListenerOf(svcs[m])]
         IN <<a.fam, a.addr>> # <<b.fam, b.addr>>

\* A new service whose address a listener already holds, or an earlier new
\* service of the same configuration takes, is refused.
SecondRefused ==
  Returns("UpdateConfig") =>
    LET cs == req'.arg.services
        new(i) == cs[i].Name \notin DOMAIN svcs
    IN /\ \A i \in 1..Len(cs) :
            (new(i) /\ Fam(cs[i]) # "" /\ InUse(World, Fam(cs[i]), cs[i].Addr))
              => cs[i].Name \notin DOMAIN svcs' /\ cs[i].Name \in req'.errs
       /\ \A i, j \in 1..Len(cs) :
            (/\ i < j /\ new(i) /\ new(j)
             /\ Fam(cs[i]) # "" /\ Fam(cs[i]) = Fam(cs[j])
             /\ cs[i].Addr # PortZero /\ cs[i].Addr = cs[j].Addr
             /\ ~InUse(World, Fam(cs[i]), cs[i].Addr))
              => /\ cs[i].Name \in DOMAIN svcs'
                 /\ cs[j].Name \notin DOMAIN svcs'
                 /\ cs[j].Name \in req'.errs

\* C2: after update_config no two services hold the same (network, bound
\* address) and each holds an open listener; a configuration naming a second
\* service with an address already held gets an error for it and the second
\* service is not registered.
ListenerUniqueness == [](ListenersDistinct) /\ [][SecondRefused]_vars

\* Two services asked for the same address: the first is registered, the
\* second is refused.
SameAddressRefused ==
  /\ Done("UpdateConfig")
  /\ Len(req.arg.services) = 2
  /\ req.arg.services[1].Addr = "a1" /\ req.arg.services[2].Addr = "a1"
  /\ Fam(req.arg.services[1]) = "tcp" /\ Fam(req.arg.services[2]) = "tcp"
  /\ req.errs = {req.arg.services[2].Name}
  /\ DOMAIN svcs = {req.arg.services[1].Name}

\* The service named by cfg is kept: update_config diffs its backends only.
KeptInPlace(cfg, backendsOnly) ==
  /\ cfg.Name \in DOMAIN svcs
  /\ ServiceConfigEqual(Config(svcs[cfg.Name], World), cfg) \/ backendsOnly

BackendsDiffed(cfg) ==
  LET n == cfg.Name
      l == ListenerOf(svcs[n])
      wanted == {cfg.Backends[k].Name : k \in 1..Len(cfg.Backends)}
  IN /\ n \in DOMAIN svcs'
     /\ [svcs'[n] EXCEPT !.Backends = <<>>] = [svcs[n] EXCEPT !.Backends = <<>>]
     /\ l \in DOMAIN lsns' /\ lsns'[l] = lsns[l] /\ lsns[l].open
     /\ \A k \in 1..Len(req'.trace) : req'.trace[k][2] = l => req'.trace[k][1] \notin {"close", "listen"}
     /\ Len(svcs'[n].Backends) = Len(cfg.Backends)
     /\ BackendNames(svcs'[n], insts') = wanted
     /\ \A k \in 1..Len(cfg.Backends) :
          LET b == cfg.Backends[k]
              o == HeldAs(svcs[n], insts, b.Name)
              m == HeldAs(svcs'[n], insts', b.Name)
          IN IF o # 0 /\ BackendConfigEqual(BackendConfigOf(insts[o]), b)
             THEN m = o /\ insts'[o] = insts[o]
             ELSE /\ m \notin DOMAIN insts
                  /\ BackendConfigEqual(BackendConfigOf(insts'[m]), b)
                  /\ insts'[m].started /\ ~insts'[m].stopped
                  /\ o # 0 => insts'[o].stopped
     /\ \A id \in Range(svcs[n].Backends) :
          insts[id].Name \notin wanted
            => insts'[id].stopped /\ id \notin Range(svcs'[n].Backends)

ConnectionKept ==
  /\ (req.st = "idle" /\ req'.st = "done") => DOMAIN conns' = DOMAIN conns
  /\ \A c \in DOMAIN conns :
       IF c \in DOMAIN conns'
       THEN LET b == insts[conns[c].b]
                a == insts'[conns'[c].b]
            IN /\ conns'[c].b \in DOMAIN insts'
               /\ BackendConfigOf(a) = BackendConfigOf(b)
               /\ a.up = b.up /\ a.Conns >= b.Conns /\ a.Active >= 1
               /\ b.stopped => a.stopped
               /\ req'.st = "done" =>
                    /\ conns'[c].b = conns[c].b
                    /\ a = [b EXCEPT !.stopped = a.stopped]
       ELSE req.st = "idle" /\ req'.st = "idle"

\* C4: a connection opened through a backend stays open, on the same backend
\* object, when that backend is replaced in place or removed by an update, a
\* PUT or a DELETE: it ends only by closing on its own, and stopping the old
\* backend changes nothing of the object but its stopped flag.
NoInterruption == [][ConnectionKept]_vars

\* A handler has just retired the backend an open connection runs through.
ConnectionOutlivesBackend ==
  /\ req.st = "done"
  /\ \E c \in DOMAIN conns :
       /\ insts[conns[c].b].stopped
       /\ insts[conns[c].b].Active = 1
       /\ \A n \in DOMAIN svcs : conns[c].b \notin Range(svcs[n].Backends)

\* Every open listener is the listener of a registered service.
OpenListenersHeld ==
  \A l \in DOMAIN lsns :
    lsns[l].open => \E n \in DOMAIN svcs : ListenerOf(svcs[n]) = l

\* update_config replaces the service cfg names.
Replaced(cfg, backendsOnly) ==
  /\ cfg.Name \in DOMAIN svcs
  /\ ~backendsOnly
  /\ ~ServiceConfigEqual(Config(svcs[cfg.Name], World), cfg)

StoppedThenStarted(cfg) ==
  LET n == cfg.Name
      old == ListenerOf(svcs[n])
      tr == req'.trace
  IN \E j \in 1..Len(tr) :
       /\ tr[j] = <<"close", old>>
       /\ ~lsns'[old].open
       /\ \A id \in Range(svcs[n].Backends) :
            /\ insts'[id].stopped
            /\ n \in DOMAIN svcs' => id \notin Range(svcs'[n].Backends)
       /\ IF n \in DOMAIN svcs'
          THEN LET new == ListenerOf(svcs'[n])
               IN /\ new # old
                  /\ lsns'[new].open
                  /\ \E k \in (j + 1)..Len(tr) : tr[k] = <<"listen", new>>
                  /\ ServiceConfigEqual(cfg, Config(svcs'[n], WorldAfter))
          ELSE n \in req'.errs

StartFails(cs, i) ==
  \/ Fam(cs[i]) = ""
  \/ InUse(World, Fam(cs[i]), cs[i].Addr)
  \/ \E k \in 1..(i - 1) :
       /\ cs[k].Name \notin DOMAIN svcs
       /\ Fam(cs[k]) = Fam(cs[i])
       /\ cs[k].Addr = cs[i].Addr /\ cs[i].Addr # PortZero
       /\ ~InUse(World, Fam(cs[k]), cs[k].Addr)

\* C6: when update_config meets a new service name whose start fails (the
\* bind fails or the network is unknown), the name is not in the registry
\* afterwards and its error is returned; every other new service of the same
\* configuration is registered as configured, listening, without an error.
StartFailureLeavesAbsent ==
  [][Returns("UpdateConfig") =>
       LET cs == req'.arg.services
       IN \A i \in 1..Len(cs) :
            cs[i].Name \notin DOMAIN svcs =>
              IF StartFails(cs, i)
              THEN cs[i].Name \notin DOMAIN svcs' /\ cs[i].Name \in req'.errs
              ELSE /\ cs[i].Name \in DOMAIN svcs'
                   /\ cs[i].Name \notin req'.errs
                   /\ ServiceConfigEqual(cs[i], Config(svcs'[cs[i].Name], WorldAfter))
                   /\ lsns'[ListenerOf(svcs'[cs[i].Name])].open
                   /\ lsns'[ListenerOf(svcs'[cs[i].Name])].fam = Fam(cs[i])]_vars

\* Of two new services the first names an unknown network and is refused,
\* the second is registered.
PartialSuccess ==
  /\ Done("UpdateConfig")
  /\ Len(req.arg.services) = 2
  /\ req.arg.services[1].Network = "bad"
  /\ req.errs = {req.arg.services[1].Name}
  /\ DOMAIN svcs = {req.arg.services[2].Name}
  /\ Cardinality(Where(req.trace, "listen")) = 1
  /\ Where(req.trace, "close") = {}

\* Every service whose name the configuration lacks is stopped and dropped.
AbsentRemoved ==
  \A n \in (DOMAIN svcs) \ CfgNames(req'.arg.services) :
    /\ n \notin DOMAIN svcs'
    /\ ~lsns'[ListenerOf(svcs[n])].open
    /\ \E j \in 1..Len(req'.trace) : req'.trace[j] = <<"close", ListenerOf(svcs[n])>>
    /\ \A id \in Range(svcs[n].Backends) :
         insts'[id].stopped /\ ~Checking(insts'[id])

HealthCheckStep ==
  \A id \in DOMAIN insts :
    LET b == insts[id]
        g == check(b, TRUE)
        h == check(b, FALSE)
    IN Checking(b) =>
         /\ 0 <= b.riseCount /\ b.riseCount <= b.rise
         /\ 0 <= b.fallCount /\ b.fallCount <= b.fall
         /\ ~(b.riseCount > 0 /\ b.fallCount > 0)
         /\ g.fallCount = 0
         /\ g.riseCount = Min(b.riseCount + 1, b.rise)
         /\ g.up = (b.up \/ g.riseCount = b.rise)
         /\ g = [b EXCEPT !.fallCount = 0, !.riseCount = g.riseCount, !.up = g.up]
         /\ h.riseCount = 0
         /\ h.fallCount = Min(b.fallCount + 1, b.fall)
         /\ h.up = (b.up /\ h.fallCount # b.fall)
         /\ h = [b EXCEPT !.riseCount = 0, !.fallCount = h.fallCount, !.up = h.up]

\* A backend with thresholds above one went DOWN and is one success short of
\* coming back.
AlmostRisen ==
  \E id \in DOMAIN insts :
    /\ insts[id].fall > 1 /\ insts[id].rise > 1
    /\ ~insts[id].up
    /\ insts[id].riseCount = insts[id].rise - 1
    /\ insts[id].fallCount = 0

\* C9: a checked backend of a service goes from UP to DOWN only on the probe
\* that makes `fall` consecutive failures, fall being the service's, and from
\* DOWN to UP only on the probe that makes `rise` consecutive successes.
HealthConvergence ==
  [][(req.st = "idle" /\ req'.st = "idle" /\ svcs' = svcs) =>
       \A n \in DOMAIN svcs :
         \A k \in 1..Len(svcs[n].Backends) :
           LET id == svcs[n].Backends[k]
           IN /\ (insts[id].up /\ ~insts'[id].up)
                   => insts'[id].fallCount >= svcs[n].Fall
              /\ (~insts[id].up /\ insts'[id].up)
                   => insts'[id].riseCount >= svcs[n].Rise]_vars

Weights(s, is) == [i \in 1..Len(s.Backends) |-> is[s.Backends[i]].Weight]

RECURSIVE SumTo(_, _)
SumTo(w, i) == IF i = 0 THEN 0 ELSE w[i] + SumTo(w, i - 1)

Max(a, b) == IF a > b THEN a ELSE b

\* Of the first k connections handed out weight by weight, in list order and
\* wrapping around, the number that went to backend i.
Share(w, i, k) ==
  LET T == SumTo(w, Len(w))
  IN (k \div T) * w[i] + Min(Max((k % T) - SumTo(w, i - 1), 0), w[i])

\* No backend of s is health-checked, so each has been up all along, and no
\* dial has failed: every connection went to the first pick.
Undisturbed(s, is) ==
  \A i \in 1..Len(s.Backends) :
    LET b == is[s.Backends[i]]
    IN b.CheckAddr = "" /\ b.up /\ b.Errors = 0

\* C11: for a round-robin service running since its start with an unchanged
\* backend list, all backends up and every dial good, after any number k of
\* connections each backend has received exactly the connections that fall
\* to it when the first pick goes weight times to the first backend, weight
\* times to the second, and so on, wrapping around.  As this holds after every
\* k, the k-th first pick is the one of that order, and after whole cycles
\* backend i has its weight's share.
WeightedRoundRobinOrder ==
  \A n \in DOMAIN svcs :
    (/\ svcs[n].next = "roundRobin"
     /\ svcs[n].Backends # <<>>
     /\ Undisturbed(svcs[n], insts))
      => \A i \in 1..Len(svcs[n].Backends) :
           insts[svcs[n].Backends[i]].Conns =
             Share(Weights(svcs[n], insts), i, Stats(svcs[n], World).Conns)

\* Two whole cycles of weights 2 and 1 were served: b1, b1, b2, b1, b1, b2.
TwoCyclesServed ==
  \E n \in DOMAIN svcs :
    /\ svcs[n].next = "roundRobin"
    /\ Undisturbed(svcs[n], insts)
    /\ Weights(svcs[n], insts) = <<2, 1>>
    /\ insts[svcs[n].Backends[1]].Conns = 4
    /\ insts[svcs[n].Backends[2]].Conns = 2

\* The position of backend object id in the list of s.
ListPos(s, id) == CHOOSE i \in 1..Len(s.Backends) : s.Backends[i] = id

\* C12: the list the least-connections policy returns holds every up backend
\* of the service once and no other, in ascending order of active, backends
\* of equal active in ascending order of cumulative conns, and backends equal
\* in both in list order; so its head is an up backend of least active.
LeastConnectionsOrder ==
  \A n \in DOMAIN svcs :
    svcs[n].next = "leastConn" =>
      LET s == svcs[n]
          list == next(s, World).list
          Up == {s.Backends[i] : i \in {j \in 1..Len(s.Backends) : insts[s.Backends[j]].up}}
      IN /\ Range(list) = Up
         /\ Len(list) = Cardinality(Up)
         /\ \A i, j \in 1..Len(list) :
              i < j =>
                LET a == insts[list[i]]
                    b == insts[list[j]]
                IN \/ a.Active < b.Active
                   \/ a.Active = b.Active /\ a.Conns < b.Conns
                   \/ /\ a.Active = b.Active /\ a.Conns = b.Conns
                      /\ ListPos(s, list[i]) < ListPos(s, list[j])
         /\ list # <<>> =>
              /\ insts[Head(list)].up
              /\ \A id \in Up : insts[Head(list)].Active <= insts[id].Active

\* The policy puts the second backend first because it has served fewer
\* connections, the two being equally idle, and the third, busier, last.
TieBrokenByConns ==
  \E n \in DOMAIN svcs :
    /\ svcs[n].next = "leastConn"
    /\ Len(svcs[n].Backends) = 3
    /\ LET b(i) == insts[svcs[n].Backends[i]]
       IN /\ b(1).up /\ b(2).up /\ b(3).up
          /\ b(1).Active = b(2).Active /\ b(1).Conns > b(2).Conns
          /\ b(3).Active > b(1).Active
          /\ next(svcs[n], World).list =
               <<svcs[n].Backends[2], svcs[n].Backends[1], svcs[n].Backends[3]>>

\* A client was accepted by service n and at least one backend was dialled.
Dialled(n) ==
  /\ req.st = "idle" /\ req'.st = "idle"
  /\ n \in DOMAIN svcs'
  /\ svcs'[n].Backends = svcs[n].Backends
  /\ \E id \in Range(svcs[n].Backends) :
       insts'[id].Conns # insts[id].Conns \/ insts'[id].Errors # insts[id].Errors

\* The candidates of service n as the policy orders them, and the place of
\* the first one whose address accepts a dial (one past the end if none does).
Candidates(n) == next(svcs[n], World).list

FirstGood(n) ==
  LET list == Candidates(n)
      G == {i \in 1..Len(list) : insts[list[i]].Addr \notin env.refused}
  IN IF G = {} THEN Len(list) + 1 ELSE CHOOSE i \in G : \A j \in G : i <= j

\* C13: when a client is accepted, the candidates before the first one whose
\* dial succeeds each count one more error and nothing else; that first one
\* counts one more connection, one more active and no error, and the one new
\* proxied connection runs through it; the candidates after it and the
\* backends the policy left out are as they were.  If no dial succeeds no
\* connection is proxied.
FailoverOnDial ==
  [][\A n \in DOMAIN svcs :
       Dialled(n) =>
         LET list == Candidates(n)
             k == FirstGood(n)
         IN /\ \A i \in 1..Len(list) :
                 LET b == insts[list[i]]
                     a == insts'[list[i]]
                 IN IF i < k THEN a = [b EXCEPT !.Errors = @ + 1]
                    ELSE IF i = k
                    THEN a = [b EXCEPT !.Conns = @ + 1, !.Active = @ + 1]
                    ELSE a = b
            /\ \A id \in DOMAIN insts : id \notin Range(list) => insts'[id] = insts[id]
            /\ DOMAIN insts' = DOMAIN insts
            /\ IF k <= Len(list)
               THEN /\ Cardinality(DOMAIN conns' \ DOMAIN conns) = 1
                    /\ \A c \in DOMAIN conns' \ DOMAIN conns : conns'[c].b = list[k]
                    /\ \A c \in DOMAIN conns : c \in DOMAIN conns' /\ conns'[c] = conns[c]
               ELSE conns' = conns]_vars

\* The first two candidates refused the dial and the client was proxied
\* through the third.
FailedOverTwice ==
  \E n \in DOMAIN svcs :
    /\ Len(svcs[n].Backends) = 3
    /\ LET b(i) == insts[svcs[n].Backends[i]]
       IN /\ b(1).Errors = 1 /\ b(1).Conns = 0
          /\ b(2).Errors = 1 /\ b(2).Conns = 0
          /\ b(3).Errors = 0 /\ b(3).Conns = 1 /\ b(3).Active = 1
    /\ \E c \in DOMAIN conns : conns[c].b = svcs[n].Backends[3]

\* C14, as the specification states it: a client for which every dial fails
\* adds one to the service's errors, and the service's stats show one error
\* more.
NoBackendCounted ==
  [][\A n \in DOMAIN svcs :
       (Dialled(n) /\ FirstGood(n) > Len(Candidates(n)))
         => /\ svcs'[n].Errors = svcs[n].Errors + 1
            /\ Stats(svcs'[n], WorldAfter).Errors = Stats(svcs[n], World).Errors + 1]_vars

SameService(n) ==
  /\ n \in DOMAIN svcs /\ n \in DOMAIN svcs'
  /\ (req.st = "idle" /\ req'.st = "done") =>
       \A k \in 1..Len(req'.trace) : req'.trace[k] # <<"close", ListenerOf(svcs[n])>>

\* The backend object service n holds at place i, as it is after the step.
\* A handler leaves the ids of the objects alone; elsewhere the list of a
\* service keeps its objects in their places.
SameBackend(n, i) ==
  IF req'.st = "done" THEN svcs[n].Backends[i] ELSE svcs'[n].Backends[i]

\* C16, as the specification states it: between two successive reads in the
\* life of a service no counter of its stats has decreased, nor any counter
\* of a backend object it holds, whatever was done to its backend list in
\* between.
CounterMonotonicity ==
  [][\A n \in DOMAIN svcs :
       SameService(n) =>
         /\ Stats(svcs'[n], WorldAfter).Conns >= Stats(svcs[n], World).Conns
         /\ Stats(svcs'[n], WorldAfter).Errors >= Stats(svcs[n], World).Errors
         /\ \A i \in 1..Len(svcs[n].Backends) :
              /\ insts'[SameBackend(n, i)].Conns >= insts[svcs[n].Backends[i]].Conns
              /\ insts'[SameBackend(n, i)].Errors >= insts[svcs[n].Backends[i]].Errors]_vars

\* The file at path is there and parses.
Parses(path) ==
  path # "" /\ path \in DOMAIN env.files /\ ~Unmarshal(env.files[path]).err

\* C17, as the specification states it: when loadConfig returns, the registry
\* is what the state config alone makes of an empty registry if the state file
\* is there and parses, and what the default config alone makes of it
\* otherwise.
StatePrecedence ==
  [][(req.st = "boot" /\ req'.st = "done") =>
       LET only == IF Parses(env.stateConfig)
                   THEN loadConfig(Reg, env.files, <<env.stateConfig>>)
                   ELSE loadConfig(Reg, env.files, <<env.defaultConfig>>)
       IN /\ svcs' = only.svcs
          /\ insts' = only.W.insts
          /\ lsns' = only.W.lsns
          /\ req'.trace = only.W.trace]_vars

\* C18, as the specification states it: whenever the files change, it is the
\* state file that changes and no other, a state path is set, the bytes of
\* the current registry config differ from what the file held, and the file
\* now holds those bytes, whole.
StatePersistence ==
  [][env'.files # env.files =>
       LET cfg == marshal(RegistryConfig(Reg, SvcOrder))
       IN /\ env.stateConfig # ""
          /\ env.stateConfig \in DOMAIN env.files => env.files[env.stateConfig] # cfg
          /\ env'.files = (env.stateConfig :> cfg) @@ env.files]_vars

\* A service configuration with every default written out, backends left
\* aside.
Normalised(c) ==
  [c EXCEPT !.Backends = <<>>,
            !.Balance = IF @ = "" THEN "RR" ELSE @,
            !.CheckInterval = IF @ = 0 THEN 2000 ELSE @,
            !.Rise = IF @ = 0 THEN 2 ELSE @,
            !.Fall = IF @ = 0 THEN 2 ELSE @,
            !.Network = IF @ = "" THEN "tcp" ELSE @]

\* C19, as the specification states it: Equal answers whether the two
\* configurations are the same once the defaults of both are written out and
\* the backends left aside, whichever of the two is the receiver.
EqualNormalisesDefaults ==
  Done("Equal") => (req.ret <=> Normalised(req.arg.s) = Normalised(req.arg.other))

\* The family of a network name: what Service.add compares, the first three
\* letters.
Family(nw) ==
  IF nw \in TCPNets THEN "tcp" ELSE IF nw \in UDPNets THEN "udp" ELSE nw

\* C20, as the specification states it: every backend a service holds has a
\* network of the service's family.
NetworkFamilyInvariant ==
  \A n \in DOMAIN svcs :
    \A i \in 1..Len(svcs[n].Backends) :
      Family(insts[svcs[n].Backends[i]].Network) = Family(svcs[n].Network)
\* The backends of s that are up, in list order.
UpSeq(s, is) == SelectSeq(s.Backends, LAMBDA id : is[id].up)

\* The sequence l turned so that it starts at its element r + 1.
Rotated(l, r) == [k \in 1..Len(l) |-> l[((k - 1 + r) % Len(l)) + 1]]

Addrs == {"x1", "x2", "x3"}

\* What the policy of s returns holds the up backends of s, each once, and
\* nothing else; under round robin they stand in list order, turned.
ListIsUpBackends(s, is) ==
  LET list == next(s, [insts |-> is, lsns |-> <<>>, trace |-> <<>>]).list
      ups == UpSeq(s, is)
  IN /\ Len(list) = Len(ups)
     /\ Range(list) = Range(ups)
     /\ \A i, j \in 1..Len(list) : list[i] = list[j] => i = j
     /\ \A i \in 1..Len(list) : is[list[i]].up
     /\ list = <<>> <=> \A k \in 1..Len(s.Backends) : ~is[s.Backends[k]].up
     /\ (s.next = "roundRobin" /\ ups # <<>>) =>
          \E r \in 0..(Len(ups) - 1) : list = Rotated(ups, r)

\* Whatever addresses refuse, a client of s leaves the backends that are
\* down as they were: none is dialled.
DownNeverDialled(s, is) ==
  \A refused \in SUBSET Addrs :
    LET r == connectTCP(s, [insts |-> is, lsns |-> <<>>, trace |-> <<>>], refused)
    IN /\ \A k \in 1..Len(s.Backends) :
            ~is[s.Backends[k]].up => r.W.insts[s.Backends[k]] = is[s.Backends[k]]
       /\ r.b # 0 => is[r.b].up

\* C21: under either policy the list returned for a new connection holds
\* every backend of the service that is up exactly once and none that is
\* down; with round robin it is the up backends in list order, rotated; it
\* is empty exactly when no backend is up; a backend that is down is not
\* dialled, and going down does not take it out of the service's list.
PoliciesReturnUp ==
  /\ [](\A n \in DOMAIN svcs :
          ListIsUpBackends(svcs[n], insts) /\ DownNeverDialled(svcs[n], insts))
  /\ [][(req.st = "idle" /\ req'.st = "idle" /\ env' = env) =>
          \A n \in DOMAIN svcs :
            n \in DOMAIN svcs' /\ svcs'[n].Backends = svcs[n].Backends]_vars

\* The round-robin policy was asked while the second of three backends was
\* down: it answered with the third and the first, in that order.
RotatedPastDown ==
  /\ Done("NextAddrs")
  /\ \E n \in DOMAIN svcs :
       /\ svcs[n].next = "roundRobin"
       /\ Len(svcs[n].Backends) = 3
       /\ ~insts[svcs[n].Backends[2]].up
       /\ req.ret = <<insts[svcs[n].Backends[3]].Addr, insts[svcs[n].Backends[1]].Addr>>

\* The index of the backend of s that is up and comes first at or after the
\* index from, going round the list.
FirstUpFrom(s, is, from) ==
  LET len == Len(s.Backends)
      U == {k \in 1..len : is[s.Backends[k]].up}
  IN CHOOSE c \in U : \A k \in U : (c - from) % len <= (k - from) % len

Looping(l) == lsns[l].loop \in {"running", "warn"}

\* Every registered service holds one listener, open, and shares it with no
\* other service.
OwnsOneListener ==
  /\ \A n \in DOMAIN svcs :
       /\ (svcs[n].tcpListener = 0) # (svcs[n].udpListener = 0)
       /\ ListenerOf(svcs[n]) \in DOMAIN lsns
       /\ lsns[ListenerOf(svcs[n])].open
  /\ \A n, m \in DOMAIN svcs : n # m => ListenerOf(svcs[n]) # ListenerOf(svcs[m])

Stopped(n) ==
  /\ Returns("UpdateConfig")
  /\ n \in DOMAIN svcs
  /\ n \in DOMAIN svcs' => ListenerOf(svcs'[n]) # ListenerOf(svcs[n])

\* What stop does to the service n: every backend's health check is stopped,
\* then the listener is closed; the proxied connections are as they were.
StopEffects(n) ==
  LET l == ListenerOf(svcs[n])
      tr == req'.trace
  IN /\ \E j \in 1..Len(tr) :
          /\ tr[j] = <<"close", l>>
          /\ \A id \in Range(svcs[n].Backends) :
               \E k \in 1..(j - 1) : tr[k] = <<"bstop", id>>
     /\ l \in DOMAIN lsns' /\ ~lsns'[l].open
     /\ \A id \in Range(svcs[n].Backends) :
          insts'[id].stopped /\ ~Checking(insts'[id])
     /\ \A c \in DOMAIN conns :
          /\ c \in DOMAIN conns' /\ conns'[c] = conns[c]
          /\ insts'[conns[c].b].Active = insts[conns[c].b].Active

\* A proxied connection goes away only in a step of its own, outside every
\* control-plane call.
EndsOnItsOwn ==
  \A c \in DOMAIN conns :
    c \notin DOMAIN conns' => req.st = "idle" /\ req' = req /\ lsns' = lsns

NoPartialApply ==
  [][(Returns("UpdateConfig") /\ req'.errs # {}) =>
       /\ \A n \in req'.errs : n \notin DOMAIN svcs'
       /\ \A l \in DOMAIN lsns' :
            lsns'[l].open => \E n \in DOMAIN svcs' : ListenerOf(svcs'[n]) = l
       /\ \A id \in DOMAIN insts' :
            Checking(insts'[id]) => \E n \in DOMAIN svcs' : id \in Range(svcs'[n].Backends)]_vars

\* One turn of the read loop of the UDP service n was taken.
Turn(n) ==
  /\ req.st = "idle" /\ req'.st = "idle"
  /\ n \in DOMAIN svcs /\ n \in DOMAIN svcs'
  /\ svcs[n].udpListener # 0 /\ svcs'[n].udpListener = svcs[n].udpListener
  /\ \/ svcs'[n].Rcvd # svcs[n].Rcvd
     \/ svcs'[n].Errors # svcs[n].Errors
     \/ lsns'[svcs[n].udpListener].loop # lsns[svcs[n].udpListener].loop

\* What a turn does to the counters: a datagram received counts its bytes
\* once on rcvd; sent grows by the same bytes or not at all, and not
\* together with errors; errors grow by one or not at all.
TurnCounts(n) ==
  LET got == svcs'[n].Rcvd - svcs[n].Rcvd
      put == svcs'[n].Sent - svcs[n].Sent
      bad == svcs'[n].Errors - svcs[n].Errors
  IN /\ got \in 0..2 /\ put \in {0, got} /\ bad \in {0, 1}
     /\ put > 0 => bad = 0
     /\ svcs'[n].Sent <= svcs'[n].Rcvd
     \* a read that fails for good counts an error and ends the loop
     /\ (got = 0 /\ bad = 1) => lsns'[svcs[n].udpListener].loop = "exited"
     \* a datagram forwarded, or dropped without an error counted (no
     \* backend, or a temporary send error): the loop continues
     /\ (got > 0 /\ bad = 0) => lsns'[svcs[n].udpListener].loop = "running"

\* C26, as the specification states it: a temporary send error lets the
\* loop continue, a send error that is not temporary ends it; rcvd counts
\* the received bytes, sent the bytes sent, and sent <= rcvd.
UDPSendErrorEndsLoop ==
  [][\A n \in DOMAIN svcs :
       Turn(n) =>
         /\ TurnCounts(n)
         /\ (svcs'[n].Rcvd > svcs[n].Rcvd /\ svcs'[n].Errors > svcs[n].Errors)
              => lsns'[svcs[n].udpListener].loop = "exited"]_vars

\* C26, amended: a temporary send error lets the loop continue with the
\* next datagram, and so does a send error that is not temporary, which is
\* counted on the service's errors; only a read error that is not temporary
\* ends the loop.  rcvd counts the bytes of every datagram received that is
\* not empty, sent the bytes of every datagram sent, and sent <= rcvd.
UDPSendErrors ==
  [][\A n \in DOMAIN svcs :
       Turn(n) =>
         /\ TurnCounts(n)
         /\ (svcs'[n].Rcvd > svcs[n].Rcvd /\ svcs'[n].Errors > svcs[n].Errors)
              => lsns'[svcs[n].udpListener].loop = "running"]_vars

\* A send failed for good and was counted, and the loop went on to forward
\* a later datagram.
ForwardedAfterSendError ==
  \E n \in DOMAIN svcs :
    /\ svcs[n].udpListener # 0
    /\ lsns[svcs[n].udpListener].loop = "running"
    /\ svcs[n].Errors = 1
    /\ svcs[n].Sent > 0
    /\ svcs[n].Rcvd > svcs[n].Sent

\* The backends a step has counted a dial on, good or failed.
DialledNow ==
  {id \in DOMAIN insts :
     id \in DOMAIN insts' /\
     insts'[id].Conns + insts'[id].Errors > insts[id].Conns + insts[id].Errors}

\* The connections a step has accepted and handed to a backend.
AcceptedNow ==
  IF DOMAIN conns \subseteq DOMAIN conns' THEN (DOMAIN conns') \ DOMAIN conns
  ELSE {}

\* A closed listener whose accept loop has not returned yet.
LoopLeftOver == \E l \in DOMAIN lsns : ~lsns[l].open /\ Looping(l)

\* C27: a temporary accept error leaves the accept loop running (it logs and
\* accepts again), and an error that is not temporary is what ends it; an
\* accept loop ends under an open listener only by such an error; a
\* connection is accepted, and a backend dialled for it, only by the running
\* loop of an open listener, so none after stop; and the loop of a listener
\* that stop has closed eventually returns.
AcceptLoopTermination ==
  /\ [](\A l \in DOMAIN lsns :
          /\ "err" \in DOMAIN lsns[l] =>
               /\ lsns[l].err = "temporary" => lsns[l].loop = "warn"
               /\ lsns[l].err # "temporary" => lsns[l].loop = "exited"
          /\ lsns[l].loop = "warn" =>
               "err" \in DOMAIN lsns[l] /\ lsns[l].err = "temporary"
          /\ lsns[l].open /\ lsns[l].fam = "tcp" /\ lsns[l].loop = "exited" =>
               "err" \in DOMAIN lsns[l] /\ lsns[l].err = "permanent")
  /\ [][req.st = "idle" /\ DOMAIN lsns \subseteq DOMAIN lsns' =>
          \A l \in DOMAIN lsns :
            lsns[l].loop = "warn" => lsns'[l].loop \in {"warn", "running"}]_vars
  /\ [][req.st = "idle" /\ req'.st = "idle"
          /\ (DialledNow # {} \/ AcceptedNow # {}) =>
          \E n \in DOMAIN svcs :
            /\ svcs[n].tcpListener # 0
            /\ lsns[svcs[n].tcpListener].open
            /\ lsns[svcs[n].tcpListener].loop = "running"
            /\ DialledNow \subseteq Range(svcs[n].Backends)
            /\ \A c \in AcceptedNow : conns'[c].b \in Range(svcs[n].Backends)]_vars
  /\ LoopLeftOver ~> ~LoopLeftOver

\* stop has closed a listener whose accept loop was logging a temporary
\* error: the loop goes on to accept again, and returns.
ClosedWhileWarning ==
  /\ req.st = "idle"
  /\ \E l \in DOMAIN lsns :
       ~lsns[l].open /\ lsns[l].loop = "warn" /\ lsns[l].err = "temporary"
  /\ \E l \in DOMAIN lsns :
       lsns[l].open /\ lsns[l].loop = "exited"

\* The backends of every service have distinct names and run: each has been
\* started and none stopped.
NamesUniqueAndRunning ==
  \A n \in DOMAIN svcs :
    /\ \A j, k \in 1..Len(svcs[n].Backends) :
         insts[svcs[n].Backends[j]].Name = insts[svcs[n].Backends[k]].Name
           => j = k
    /\ \A k \in 1..Len(svcs[n].Backends) :
         /\ insts[svcs[n].Backends[k]].started
         /\ ~insts[svcs[n].Backends[k]].stopped

\* What add has done when AddBackend returns for the service n: the new
\* object is a fresh one, started, not stopped and up; it stands where the
\* backend of its name stood, which is stopped, or at the end of the list if
\* there was none; every other backend is where and as it was.
AddEffects(n) ==
  LET old == svcs[n].Backends
      new == svcs'[n].Backends
      i == FindBackend(svcs[n], World, req'.arg.b.Name)
      at == IF i = 0 THEN Len(old) + 1 ELSE i
  IN /\ Len(new) = IF i = 0 THEN Len(old) + 1 ELSE Len(old)
     /\ \A k \in 1..Len(old) : k # at => new[k] = old[k]
     /\ new[at] \notin DOMAIN insts
     /\ insts'[new[at]].Name = req'.arg.b.Name
     /\ insts'[new[at]].started
     /\ ~insts'[new[at]].stopped
     /\ insts'[new[at]].up
     /\ i # 0 => /\ insts'[old[i]] = [insts[old[i]] EXCEPT !.stopped = TRUE]
                 /\ req'.trace = <<<<"bstop", old[i]>>, <<"bstart", new[at]>>>>
     /\ i = 0 => req'.trace = <<<<"bstart", new[at]>>>>
     /\ \A id \in DOMAIN insts : (i = 0 \/ id # old[i]) => insts'[id] = insts[id]

\* What remove has done when RemoveBackend returns for the service n: the
\* backend of that name is stopped and out of the list, the others are as
\* they were.
RemoveEffects(n) ==
  LET i == FindBackend(svcs[n], World, req'.arg.name)
  IN /\ BackendNames(svcs'[n], insts')
          = BackendNames(svcs[n], insts) \ {req'.arg.name}
     /\ Range(svcs'[n].Backends) \subseteq Range(svcs[n].Backends)
     /\ i # 0 => insts'[svcs[n].Backends[i]].stopped
     /\ \A id \in Range(svcs'[n].Backends) : insts'[id] = insts[id]

\* C28: after any sequence of add and remove calls no two backends of a
\* service share a name, and every backend in the list has been started and
\* not stopped; add of a name the service holds stops the old object and
\* puts the new one at its index, the list as long as before, started and
\* up whatever the old one was; add of a new name appends it and starts it.
ReplaceInPlace ==
  /\ []NamesUniqueAndRunning
  /\ [][Returns("AddBackend") => AddEffects(req'.arg.svc)]_vars
  /\ [][Returns("RemoveBackend") => RemoveEffects(req'.arg.svc)]_vars

\* add has replaced b2, which its health check had marked down, in a list
\* whose order a remove had changed: the new b2 is up at the same index.
DownBackendReplaced ==
  /\ Done("AddBackend")
  /\ req.arg.b.Name = "b2"
  /\ BackendNames(svcs["s1"], insts) = {"b2", "b3"}
  /\ insts[svcs["s1"].Backends[1]].Name = "b3"
  /\ insts[svcs["s1"].Backends[2]].up
  /\ \E id \in DOMAIN insts :
       /\ insts[id].Name = "b2"
       /\ insts[id].stopped
       /\ ~insts[id].up

\* C29: every call of Backend.Stop returns, without an error, and leaves the
\* backend stopped with no health-check task running, also a backend that
\* never had one; a call on a backend that is stopped already changes
\* nothing on it; and a stopped backend is never checked again.
StopIdempotent ==
  /\ [](req.errs = {})
  /\ [](req.st = "done" =>
          /\ insts[req.arg.id].stopped
          /\ insts[req.arg.id].task \in {"none", "exited"}
          /\ ~Checking(insts[req.arg.id])
          /\ req.arg.was.stopped =>
               insts[req.arg.id]
                 = [req.arg.was EXCEPT !.stops = @ + 1, !.task = "exited"]
               \/ insts[req.arg.id] = [req.arg.was EXCEPT !.stops = @ + 1])
  /\ [][\A id \in DOMAIN insts :
          insts[id].stopped =>
            /\ insts'[id].stopped
            /\ insts'[id].up = insts[id].up
            /\ insts'[id].task # "running" \/ insts[id].task = "running"]_vars
  /\ (req.st = "stopping") ~> (req.st = "done")

\* Backend.Stop has returned a second time on a health-checked backend that
\* was down, and a third call is possible.
StoppedTwice ==
  /\ req.st = "done"
  /\ insts[req.arg.id].stops = 2
  /\ insts[req.arg.id].CheckAddr # ""
  /\ ~insts[req.arg.id].up
  /\ req.arg.was.stopped
  /\ insts[req.arg.id].task = "exited"

\* The orders in which the calls of the goroutines can be run one at a time.
Orders ==
  {o \in [1..Cardinality(TaskIds) -> TaskIds] :
     \A i, j \in DOMAIN o : o[i] = o[j] => i = j}

\* The calls ops run one after the other in the order given, from the
\* service s on the heap W: the service, the heap and what each pick returned.
RECURSIVE Replay(_, _, _)
Replay(order, ops, st) ==
  IF order = <<>> THEN st
  ELSE LET t == Head(order)
           o == ops[t]
       IN IF o.op = "pick"
          THEN LET p == next(st.s, st.W)
               IN Replay(Tail(order), ops,
                         [st EXCEPT !.s = p.s, !.rets[t] = p.list])
          ELSE IF o.op = "add"
          THEN LET id == FreeId(st.W.insts)
                   W1 == [st.W EXCEPT !.insts = (id :> NewBackend(o.arg)) @@ @]
                   r == add(st.s, W1, id)
               IN Replay(Tail(order), ops, [st EXCEPT !.s = r.s, !.W = r.W])
          ELSE LET r == remove(st.s, st.W, o.arg)
               IN Replay(Tail(order), ops, [st EXCEPT !.s = r.s, !.W = r.W])

\* What the calls of a race come to when they are run one at a time in the
\* order o, from the service and the heap the race started on.
Sequential(o) ==
  Replay(o, env.tasks,
         [s |-> env.s0, W |-> [World EXCEPT !.insts = env.W0],
          rets |-> [t \in TaskIds |-> <<>>]])

\* C30: the policy calls of two connections accepted at once, and an add or
\* a remove running with them, take the service lock one after the other: a
\* policy call reads a backend list with no half-done mutation in it, at most
\* one goroutine is between Lock and Unlock, and when all have returned the
\* service, its round-robin state included, the backends and the list each
\* pick returned are those of the calls run one at a time in some order.
LinearisedPicks ==
  /\ [](req.st = "racing" =>
          /\ Cardinality({t \in TaskIds :
                            env.tasks[t].pc \notin {"start", "done"}}) <= 1
          /\ \A t \in TaskIds :
               env.tasks[t].pc = "read" =>
                 0 \notin Range(env.tasks[t].local.list))
  /\ [](Done("Race") =>
          \E o \in Orders :
            /\ Sequential(o).s = svcs["s1"]
            /\ Sequential(o).W.insts = insts
            /\ \A t \in TaskIds : Sequential(o).rets[t] = env.tasks[t].ret)

\* Two picks and a remove of b1 have returned: the picks returned different
\* lists, one taken before the remove and one after it.
PicksAroundRemove ==
  /\ Done("Race")
  /\ env.tasks["t3"].op = "remove"
  /\ env.tasks["t3"].arg = "b1"
  /\ Len(env.tasks["t1"].ret) = 3
  /\ Len(env.tasks["t2"].ret) = 2
  /\ svcs["s1"].next = "roundRobin"

\* C31: remove(name) returns true exactly when the service held a backend of
\* that name.  Then the list is the old one without that backend, the last
\* backend standing in its place, that backend is stopped and nothing else
\* is: every other backend is in the list, as it was, neither stopped nor
\* started.  When it returns false the list, the backends and the tasks are
\* as they were.
RemoveFrame ==
  [][Returns("RemoveBackend") =>
       LET n == req'.arg.svc
           old == svcs[n].Backends
           new == svcs'[n].Backends
           I == {k \in 1..Len(old) : insts[old[k]].Name = req'.arg.name}
       IN /\ (req'.errs = {}) = (I # {})
          /\ svcs' = [svcs EXCEPT ![n].Backends = new]
          /\ DOMAIN insts' = DOMAIN insts
          /\ I = {} => /\ new = old
                       /\ insts' = insts
                       /\ req'.trace = <<>>
          /\ I # {} =>
               \E i \in I :
                 /\ Len(new) = Len(old) - 1
                 /\ Range(new) = Range(old) \ {old[i]}
                 /\ \A k \in 1..Len(new) :
                      new[k] = IF k = i THEN old[Len(old)] ELSE old[k]
                 /\ insts' = [insts EXCEPT ![old[i]].stopped = TRUE]
                 /\ req'.trace = <<<<"bstop", old[i]>>>>]_vars

\* remove has taken b1 out of a list of three and moved b3 into its place:
\* b1 is stopped, b3 and b2 run.
MovedIntoFreedSlot ==
  /\ Done("RemoveBackend")
  /\ req.arg.name = "b1"
  /\ req.errs = {}
  /\ Len(svcs["s1"].Backends) = 2
  /\ insts[svcs["s1"].Backends[1]].Name = "b3"
  /\ insts[svcs["s1"].Backends[2]].Name = "b2"
  /\ \A k \in 1..2 : ~insts[svcs["s1"].Backends[k]].stopped
  /\ req.trace # <<>>
  /\ insts[req.trace[1][2]].Name = "b1"
  /\ insts[req.trace[1][2]].stopped

\* C32, as the specification states it: Equal gives the same answer with the
\* two configurations exchanged.
EqualSymmetric ==
  Done("Equal") =>
    (req.ret <=> ServiceConfigEqual(req.arg.other, req.arg.s))

\* The names of the backends of a service configuration.
CfgBackendNames(c) == {c.Backends[i].Name : i \in 1..Len(c.Backends)}

\* C33, as the specification states it: DeepEqual is true exactly when Equal
\* holds, the two backend lists have the same names, and the backends of the
\* same name are equal once weight 0 is read as 1 and an empty network as
\* tcp.
DeepEqualWithBackends ==
  Done("DeepEqual") =>
    (req.ret <=>
       /\ ServiceConfigEqual(req.arg.s, req.arg.other)
       /\ Len(req.arg.s.Backends) = Len(req.arg.other.Backends)
       /\ CfgBackendNames(req.arg.s) = CfgBackendNames(req.arg.other)
       /\ \A i \in 1..Len(req.arg.s.Backends) :
            \A j \in 1..Len(req.arg.other.Backends) :
              req.arg.s.Backends[i].Name = req.arg.other.Backends[j].Name
                => BackendConfigEqual(req.arg.s.Backends[i],
                                      req.arg.other.Backends[j]))

\* C34, as the specification states it: a call of RemoveBackend that takes
\* the last endpoint of a vhost away returns.  It can return only if it is
\* never left waiting in Lock for the mutex that a call below it on its own
\* stack holds: that call unlocks the mutex when the waiting call has returned,
\* and no other goroutine unlocks it.
RemoveBackendReturns ==
  \A t \in DOMAIN env.stacks :
    LET st == env.stacks[t]
    IN ~(/\ st # <<>>
         /\ Top(st).pc = "lock"
         /\ \E k \in 1..(Len(st) - 1) : st[k].held)

====
